---- MODULE Spec2Model ----
(***************************************************************************)
(* Event-sourced double-entry ledger of ziyandas-ledger.                   *)
(*                                                                         *)
(* The store is the hosted relational store the services write to          *)
(* (economic_events, event_effects, income/expense recognitions, assets,   *)
(* liabilities, entities).  Every `await` on the store is one atomic step  *)
(* of the calling handler, so concurrent handlers interleave between the   *)
(* storage calls exactly as the JavaScript event loop allows.              *)
(*                                                                         *)
(* services/eventService.js carries two definitions of                     *)
(* recordEconomicEvent: lines 22-71 (one RPC to the database function      *)
(* record_economic_event) and lines 223-297 (two separate inserts).  A     *)
(* build resolves the name to one of them; `recorder` records which.       *)
(***************************************************************************)
EXTENDS Integers, Sequences, FiniteSets, TLC

(***************************************************************************)
(* Bounds of the model.                                                    *)
(***************************************************************************)
MaxEvents == 2          \* economic_events rows ever created in a run
MaxAmount == 4          \* catalog amounts are 5, 10, .., 5 * MaxAmount
MaxLedgerAmount == 1    \* amounts passed to the services: 5, .., 5 * MaxLedgerAmount
MaxMonths == 2          \* months elapsed since an asset was acquired
MaxYears == 1           \* whole years elapsed since a liability was created

(***************************************************************************)
(* Program constants.                                                      *)
(***************************************************************************)
DR == 1
CR == -1
MinEffects == 2

Undefined == "undefined"     \* a property the JavaScript object does not carry
Null == "null"               \* SQL NULL / JavaScript null in a string column
NoSign == 0                  \* effect_sign left undefined by the caller

Amounts == {5 * k : k \in 1..MaxAmount}
LedgerAmounts == {5 * k : k \in 1..MaxLedgerAmount}

EffectTypes == {"CASH", "ASSET", "LIABILITY", "INCOME", "EXPENSE", "EQUITY"}

(***************************************************************************)
(* Effect payloads, as JavaScript objects handed to a recorder.  The       *)
(* catalog, the factories and the builders write snake_case keys           *)
(* (effect_type, effect_sign); the services write camelCase keys           *)
(* (effectType, and no sign at all).  A missing key reads as undefined.    *)
(***************************************************************************)
effect(effectType, amount, sign) ==
    [effect_type |-> effectType, amount |-> amount, effect_sign |-> sign,
     effectType |-> Undefined, effectSign |-> NoSign]

CamelEffect(effectType, amount) ==
    [effect_type |-> Undefined, amount |-> amount, effect_sign |-> NoSign,
     effectType |-> effectType, effectSign |-> NoSign]

CamelSignedEffect(effectType, amount, sign) ==
    [effect_type |-> Undefined, amount |-> amount, effect_sign |-> NoSign,
     effectType |-> effectType, effectSign |-> sign]

(***************************************************************************)
(* Effect Builder (domain/events/effectBuilders.js).                       *)
(***************************************************************************)
cashIncrease(amount) == effect("CASH", amount, 1)
cashDecrease(amount) == effect("CASH", amount, -1)
assetIncrease(amount) == effect("ASSET", amount, 1)
assetDecrease(amount) == effect("ASSET", amount, -1)
liabilityIncrease(amount) == effect("LIABILITY", amount, -1)
\* a liabilityDecrease with the sign of an increase
liabilityDecreaseAsCredit(amount) == effect("LIABILITY", amount, -1)
liabilityDecrease(amount) == effect("LIABILITY", amount, 1)
incomeRecognized(amount) == effect("INCOME", amount, -1)
expenseRecognized(amount) == effect("EXPENSE", amount, 1)

(***************************************************************************)
(* Archetype Catalog (domain/events/archetypeLabels.js).  amount * 0.8 is  *)
(* exact on the amounts of the model, which are multiples of 5.            *)
(***************************************************************************)
ArchetypeNames ==
    {"CASH_SALE", "CREDIT_SALE", "REVENUE_REFUND", "CASH_EXPENSE",
     "EXPENSE_ON_CREDIT", "ASSET_PURCHASED_CASH", "ASSET_SOLD_WITH_GAIN",
     "DEPRECIATION", "LOAN_RECEIVED", "LOAN_REPAID", "OWNER_INVESTMENT",
     "OWNER_WITHDRAWAL"}

DefaultBookValue(amount) == (amount * 8) \div 10

AssetSoldWithGainUnbalanced(amount, bookValue) ==
    << effect("CASH", amount, 1),
       effect("ASSET", bookValue, -1) >>

AssetSoldWithGain(amount, bookValue) ==
    LET gain == amount - bookValue
    IN  << effect("CASH", amount, 1),
           effect("ASSET", bookValue, -1),
           effect("INCOME", gain, -1) >>

buildEffects(value, amount) ==
    CASE value = "CASH_SALE" ->
           << effect("CASH", amount, 1), effect("INCOME", amount, -1) >>
      [] value = "CREDIT_SALE" ->
           << effect("ASSET", amount, 1), effect("INCOME", amount, -1) >>
      [] value = "REVENUE_REFUND" ->
           << effect("INCOME", amount, 1), effect("CASH", amount, -1) >>
      [] value = "CASH_EXPENSE" ->
           << effect("EXPENSE", amount, 1), effect("CASH", amount, -1) >>
      [] value = "EXPENSE_ON_CREDIT" ->
           << effect("EXPENSE", amount, 1), effect("LIABILITY", amount, -1) >>
      [] value = "ASSET_PURCHASED_CASH" ->
           << effect("ASSET", amount, 1), effect("CASH", amount, -1) >>
      [] value = "ASSET_SOLD_WITH_GAIN" ->
           AssetSoldWithGain(amount, DefaultBookValue(amount))
      [] value = "DEPRECIATION" ->
           << effect("EXPENSE", amount, 1), effect("ASSET", amount, -1) >>
      [] value = "LOAN_RECEIVED" ->
           << effect("CASH", amount, 1), effect("LIABILITY", amount, -1) >>
      [] value = "LOAN_REPAID" ->
           << effect("LIABILITY", amount, 1), effect("CASH", amount, -1) >>
      [] value = "OWNER_INVESTMENT" ->
           << effect("CASH", amount, 1), effect("EQUITY", amount, -1) >>
      [] value = "OWNER_WITHDRAWAL" ->
           << effect("EQUITY", amount, 1), effect("CASH", amount, -1) >>

(***************************************************************************)
(* Canonical event factories (domain/events/eventTemplates.js).            *)
(***************************************************************************)
FactoryNames ==
    {"revenueEarned", "expenseIncurred", "assetAcquiredWithCash",
     "assetAcquiredWithLiability", "liabilityIncurred", "liabilitySettled",
     "assetDisposed"}

revenueEarned(amount) ==
    [eventType |-> "REVENUE_EARNED",
     effects |-> << effect("CASH", amount, DR), effect("INCOME", amount, CR) >>]

expenseIncurred(amount) ==
    [eventType |-> "EXPENSE_INCURRED",
     effects |-> << effect("EXPENSE", amount, DR), effect("CASH", amount, CR) >>]

assetAcquiredWithCash(amount) ==
    [eventType |-> "ASSET_ACQUIRED",
     effects |-> << effect("ASSET", amount, DR), effect("CASH", amount, CR) >>]

assetAcquiredWithLiability(amount) ==
    [eventType |-> "ASSET_ACQUIRED",
     effects |-> << effect("ASSET", amount, DR), effect("LIABILITY", amount, CR) >>]

liabilityIncurred(amount) ==
    [eventType |-> "LIABILITY_INCURRED",
     effects |-> << effect("CASH", amount, DR), effect("LIABILITY", amount, CR) >>]

liabilitySettled(amount) ==
    [eventType |-> "LIABILITY_SETTLED",
     effects |-> << effect("LIABILITY", amount, DR), effect("CASH", amount, CR) >>]

assetDisposed(amount) ==
    [eventType |-> "ASSET_DISPOSED",
     effects |-> << effect("CASH", amount, DR), effect("ASSET", amount, CR) >>]

Factory(name, amount) ==
    CASE name = "revenueEarned" -> revenueEarned(amount)
      [] name = "expenseIncurred" -> expenseIncurred(amount)
      [] name = "assetAcquiredWithCash" -> assetAcquiredWithCash(amount)
      [] name = "assetAcquiredWithLiability" -> assetAcquiredWithLiability(amount)
      [] name = "liabilityIncurred" -> liabilityIncurred(amount)
      [] name = "liabilitySettled" -> liabilitySettled(amount)
      [] name = "assetDisposed" -> assetDisposed(amount)

(***************************************************************************)
(* Sign-aware summation of a list of effect payloads, as the reduce of     *)
(* sumEffectsByType does over rows: sum + amount * effect_sign.            *)
(***************************************************************************)
RECURSIVE SignedSum(_)
SignedSum(effects) ==
    IF effects = << >> THEN 0
    ELSE SignedSum(SubSeq(effects, 1, Len(effects) - 1))
           + effects[Len(effects)].amount * effects[Len(effects)].effect_sign

(***************************************************************************)
(* State.                                                                  *)
(***************************************************************************)
VARIABLES
    recorder,          \* which recordEconomicEvent the build resolved: "RPC" | "DIRECT"
    logCap,            \* economic_events rows the run may create
    entities,          \* ids of the rows of table entities
    economic_events,   \* rows of table economic_events
    event_effects,     \* rows of table event_effects
    recognitions,      \* rows of income_recognitions and expense_recognitions
    assets,            \* rows of table assets
    liabilities,       \* rows of table liabilities
    nextEventId,       \* the next fresh economic_events id
    pc,                \* per caller: where its handler stands
    call,              \* per caller: the handler's local variables
    reader,            \* the getEventWithEffects call in flight
    built,             \* input and output of the pure builders
    events,            \* eventEmitter.events['ECONOMIC_EVENT_RECORDED']: callbacks
    delivered          \* the calls the emitter has made to callbacks, in order

vars == << recorder, logCap, entities, economic_events, event_effects, recognitions,
           assets, liabilities, nextEventId, pc, call, reader, built, events,
           delivered >>

store == << entities, economic_events, event_effects, recognitions, assets,
            liabilities, nextEventId >>

Procs == {"w1", "w2"}
CurrentUser == "u1"
EntityOwner == [e \in {"e1", "e2"} |-> IF e = "e1" THEN "u1" ELSE "u2"]
Reasons == {"duplicate"}

Desc(template, reason) == [template |-> template, reason |-> reason]

IdleCall ==
    [op |-> "none", entityId |-> Null, eventType |-> "none",
     description |-> Desc("", ""), effects |-> << >>, eventId |-> 0,
     target |-> 0, amount |-> 0, remaining |-> 0, extra |-> 0,
     result |-> "none", error |-> ""]

IdleReader ==
    [pc |-> "idle", eventId |-> 0, event |-> {}, effects |-> {},
     result |-> "none"]

NoBuilt == [source |-> "none", name |-> "none", amount |-> 0,
            effects |-> << >>, stage |-> "none"]

StoreInit ==
    /\ entities = {"e1", "e2"}
    /\ economic_events = {}
    /\ event_effects = {}
    /\ recognitions = {}
    /\ assets = {}
    /\ liabilities = {}
    /\ nextEventId = 1
    /\ pc = [p \in Procs |-> "idle"]
    /\ call = [p \in Procs |-> IdleCall]
    /\ reader = IdleReader

\* constructor() { this.events = {} }
EmitterInit ==
    /\ events = << >>
    /\ delivered = << >>

Init ==
    /\ recorder \in {"RPC", "DIRECT"}
    /\ logCap = MaxEvents
    /\ StoreInit
    /\ EmitterInit
    /\ built = NoBuilt

(***************************************************************************)
(* Handler plumbing: returning a result to the caller.                     *)
(***************************************************************************)
\* a handler is entered by an idle caller while the log has room
CanStart(p) == pc[p] = "idle" /\ nextEventId <= logCap

Fail(p, c, message) ==
    /\ pc' = [pc EXCEPT ![p] = "done"]
    /\ call' = [call EXCEPT ![p] = [c EXCEPT !.result = "failure", !.error = message]]

Succeed(p, c) ==
    /\ pc' = [pc EXCEPT ![p] = "done"]
    /\ call' = [call EXCEPT ![p] = [c EXCEPT !.result = "success"]]

Goto(p, c, label) ==
    /\ pc' = [pc EXCEPT ![p] = label]
    /\ call' = [call EXCEPT ![p] = c]

(***************************************************************************)
(* Storage layer.  Row ids stand for the UUIDs the database generates: an  *)
(* event takes the next fresh id, its k-th effect row is <<event id, k>>.  *)
(* A foreign key must resolve when the row is written; deleting an entity  *)
(* cascades to everything that hangs off it.                               *)
(***************************************************************************)
EventRow(id, userId, entityId, eventType, description) ==
    [id |-> id, user_id |-> userId, entity_id |-> entityId,
     event_type |-> eventType, description |-> description]

EffectRow(eventId, k, effectType, amount, sign) ==
    [id |-> << eventId, k >>, event_id |-> eventId, effect_type |-> effectType,
     amount |-> amount, effect_sign |-> sign]

EventIds == {e.id : e \in economic_events}

EffectsOf(eventId) == {x \in event_effects : x.event_id = eventId}

\* economic_events.entity_id -> entities; a NULL reference is not checked
EntityResolves(entityId) == entityId = Null \/ entityId \in entities

(***************************************************************************)
(* recordEconomicEvent, lines 223-297: two separate inserts.               *)
(***************************************************************************)
\* supabase.from('economic_events').insert(row): the table afterwards
InsertEventReplacing(rows, row) ==
    {r \in rows : r.entity_id # row.entity_id} \cup {row}

InsertEvent(rows, row) == rows \cup {row}

\* supabase.from('event_effects').insert(payloads): the table afterwards
InsertEffects(rows, payloads) == rows \cup payloads

\* payloads that take the id of the newest event row instead of eventData.id
DirectPayloadsOfNewestEvent(eventId, effects) ==
    { EffectRow(nextEventId - 1, k, effects[k].effectType, effects[k].amount,
                effects[k].effectSign) : k \in 1..Len(effects) }

\* the payloads of event_effects.insert(payloads): effects.map(...)
DirectPayloads(eventId, effects) ==
    { EffectRow(eventId, k, effects[k].effectType, effects[k].amount,
                effects[k].effectSign) : k \in 1..Len(effects) }

\* getCurrentUser(), then the first insert is attempted
DirectPreludeError(c, authed) ==
    IF ~authed THEN "Not authenticated" ELSE ""

(***************************************************************************)
(* recordEconomicEvent, lines 22-71: validation, then one RPC.             *)
(***************************************************************************)
RpcPreludeError(c, authed) ==
    IF c.entityId = Null THEN "entityId is required"
    ELSE IF Len(c.effects) < MinEffects THEN "At least two effects are required"
    ELSE IF ~authed THEN "Not authenticated"
    ELSE ""

(***************************************************************************)
(* The database function record_economic_event (not part of the           *)
(* repository's sources): validates, then writes the event row and its    *)
(* effect rows in one transaction.                                         *)
(***************************************************************************)
WellFormedEffect(e) ==
    /\ e.effect_type \in EffectTypes
    /\ e.effect_sign \in {1, -1}

RecordEconomicEventFnError(userId, entityId, effects) ==
    IF entityId \notin entities THEN "entity not found"
    ELSE IF EntityOwner[entityId] # userId THEN "not authorized"
    ELSE IF Len(effects) < MinEffects THEN "At least two effects are required"
    ELSE IF \E k \in 1..Len(effects) : ~WellFormedEffect(effects[k])
         THEN "malformed effect"
    ELSE IF \E k \in 1..Len(effects) : effects[k].amount <= 0
         THEN "amount must be positive"
    ELSE ""

RpcPayloads(eventId, effects) ==
    { EffectRow(eventId, k, effects[k].effect_type, effects[k].amount,
                effects[k].effect_sign) : k \in 1..Len(effects) }

(***************************************************************************)
(* Entering a recorder from a handler that has assembled the call c.       *)
(***************************************************************************)
PreludeError(c, authed) ==
    IF recorder = "RPC" THEN RpcPreludeError(c, authed)
    ELSE DirectPreludeError(c, authed)

Record(p, c, authed) ==
    LET err == PreludeError(c, authed)
    IN  IF err # "" THEN Fail(p, c, err)
        ELSE Goto(p, c, IF recorder = "RPC" THEN "rpc" ELSE "insert_event")

NewCall(op, entityId, eventType, description, effects, target, amount, remaining, extra) ==
    [op |-> op, entityId |-> entityId, eventType |-> eventType,
     description |-> description, effects |-> effects, eventId |-> 0,
     target |-> target, amount |-> amount, remaining |-> remaining,
     extra |-> extra, result |-> "none", error |-> ""]

\* what the handler does once the recorder has returned success
PostLabel(c) ==
    CASE c.op \in {"addIncome", "addExpense", "addAsset", "addLiability",
                   "disposeAsset"} -> "post"
      [] c.op = "recordLiabilityPayment" ->
           IF c.remaining = 0 THEN "post" ELSE "done"
      [] OTHER -> "done"

AfterRecorded(p, c) ==
    IF PostLabel(c) = "done" THEN Succeed(p, c) ELSE Goto(p, c, "post")

(***************************************************************************)
(* lib/eventEmitter.js, for the event name ECONOMIC_EVENT_RECORDED.  The   *)
(* callbacks are the reload handlers of the mounted pages.                 *)
(***************************************************************************)
Listeners == {"ProfilePage", "HomeTab"}

EventData(entityId, eventType, eventId) ==
    [entityId |-> entityId, eventType |-> eventType, eventId |-> eventId]

\* listeners whose callback throws when it is called
ThrowingListeners == {"throwing"}

\* a forEach whose body lets the exception of a callback through: it stops
\* at the first callback that throws
forEachWithoutCatch(array) ==
    LET throwing == {i \in 1..Len(array) : array[i] \in ThrowingListeners}
    IN  IF throwing = {} THEN [called |-> array, threw |-> FALSE]
        ELSE [called |-> SubSeq(array, 1,
                                CHOOSE i \in throwing : \A j \in throwing : i <= j),
              threw |-> TRUE]

\* forEach(callback => { try { callback(data) } catch (error) {
\* console.error(...) } }): the callbacks called, and whether an exception
\* leaves the loop
forEach(array) == [called |-> array, threw |-> FALSE]

\* this.events[eventName].forEach(...)
emit(data) ==
    delivered' = delivered \o
        [i \in 1..Len(forEach(events).called) |->
           [callback |-> forEach(events).called[i], data |-> data]]

\* emit ends with an exception, which the caller's catch block receives
emitThrew == forEach(events).threw

\* what each recorder passes to emit
EmittedData(c, eventId) ==
    IF recorder = "RPC" THEN EventData(c.entityId, c.eventType, 0)
    ELSE EventData(c.entityId, c.eventType, eventId)

\* 1: economic_events.insert(...).select().single()
recordEconomicEvent_insertEvent(p) ==
    /\ pc[p] = "insert_event"
    /\ \E ok \in BOOLEAN :
         IF ok /\ EntityResolves(call[p].entityId)
         THEN /\ economic_events' =
                   InsertEvent(economic_events,
                               EventRow(nextEventId, CurrentUser, call[p].entityId,
                                        call[p].eventType, call[p].description))
              /\ nextEventId' = nextEventId + 1
              /\ Goto(p, [call[p] EXCEPT !.eventId = nextEventId], "insert_effects")
         ELSE /\ Fail(p, call[p], "insert into economic_events failed")
              /\ UNCHANGED << economic_events, nextEventId >>
    /\ UNCHANGED << recorder, logCap, events, delivered, entities, event_effects,
                    recognitions, assets, liabilities, reader, built >>

\* 2: if (effects.length > 0) event_effects.insert(payloads).select(); 3: return
recordEconomicEvent_insertEffects(p) ==
    /\ pc[p] = "insert_effects"
    /\ IF Len(call[p].effects) = 0
       THEN /\ emit(EmittedData(call[p], call[p].eventId))
            /\ IF emitThrew THEN Fail(p, call[p], "listener error")
               ELSE AfterRecorded(p, call[p])
            /\ UNCHANGED event_effects
       ELSE \E ok \in BOOLEAN :
              IF ok /\ call[p].eventId \in EventIds
              THEN /\ event_effects' =
                        InsertEffects(event_effects,
                                      DirectPayloads(call[p].eventId, call[p].effects))
                   /\ emit(EmittedData(call[p], call[p].eventId))
                   /\ IF emitThrew THEN Fail(p, call[p], "listener error")
                      ELSE AfterRecorded(p, call[p])
              ELSE /\ Fail(p, call[p], "insert into event_effects failed")
                   /\ UNCHANGED << event_effects, delivered >>
    /\ UNCHANGED << recorder, logCap, events, entities, economic_events, recognitions,
                    assets, liabilities, nextEventId, reader, built >>

(***************************************************************************)
(* supabase.rpc('record_economic_event', ...) and what the caller does     *)
(* with { success: true, eventId }: a service reads eventResult.data,      *)
(* which this recorder does not return, and fails on the TypeError.        *)
(***************************************************************************)
recordEconomicEvent_rpc(p) ==
    /\ pc[p] = "rpc"
    /\ \E ok \in BOOLEAN :
         LET c == call[p]
             err == RecordEconomicEventFnError(CurrentUser, c.entityId, c.effects)
         IN  IF err # "" THEN
                 /\ Fail(p, c, err)
                 /\ UNCHANGED << economic_events, event_effects, nextEventId,
                                 delivered >>
             ELSE IF ~ok THEN
                 /\ Fail(p, c, "record_economic_event failed")
                 /\ UNCHANGED << economic_events, event_effects, nextEventId,
                                 delivered >>
             ELSE
                 /\ economic_events' = economic_events \cup
                       { EventRow(nextEventId, CurrentUser, c.entityId,
                                  c.eventType, c.description) }
                 /\ event_effects' = event_effects \cup
                       RpcPayloads(nextEventId, c.effects)
                 /\ nextEventId' = nextEventId + 1
                 /\ emit(EmittedData(c, nextEventId))
                 /\ IF emitThrew
                    THEN Fail(p, [c EXCEPT !.eventId = nextEventId], "listener error")
                    ELSE IF c.op = "recordEconomicEvent"
                    THEN Succeed(p, [c EXCEPT !.eventId = nextEventId])
                    ELSE Fail(p, [c EXCEPT !.eventId = nextEventId],
                              "Cannot read properties of undefined")
    /\ UNCHANGED << recorder, logCap, events, entities, recognitions, assets,
                    liabilities, reader, built >>

(***************************************************************************)
(* Inputs of the handlers.                                                 *)
(***************************************************************************)
Callers == {"w1"}
EntityArgs == {"e1", "e2", Null}
ServiceEntityArgs == {"e1", Null}
AmountArgs == LedgerAmounts \cup {0, -5}
UsefulLifeArgs == {0, 5}
RateArgs == {0, 100}                       \* annual rate, in percent

\* effect lists a caller of recordEconomicEvent may pass
RawEffects ==
    { << >>,
      << cashIncrease(5) >>,
      buildEffects("CASH_SALE", 5),
      buildEffects("CASH_SALE", 0),
      << CamelSignedEffect("CASH", 5, 1), CamelSignedEffect("INCOME", 5, -1) >> }

\* recordEconomicEvent({entityId, eventType, effects}) called directly
recordEconomicEvent(p) ==
    /\ CanStart(p)
    /\ \E entityId \in EntityArgs, effects \in RawEffects, authed \in BOOLEAN :
         Record(p, NewCall("recordEconomicEvent", entityId, "REVENUE_EARNED",
                           Desc("", ""), effects, 0, 0, 0, 0), authed)
    /\ UNCHANGED << recorder, logCap, events, delivered, store, reader, built >>

(***************************************************************************)
(* incomeService.js                                                        *)
(***************************************************************************)
addIncome(p) ==
    /\ CanStart(p)
    /\ \E entityId \in ServiceEntityArgs, amountNet \in AmountArgs,
          authed \in BOOLEAN, authedRecorder \in BOOLEAN :
         LET c == NewCall("addIncome", entityId, "REVENUE_EARNED",
                          Desc("Income", ""),
                          << CamelEffect("INCOME_RECOGNIZED", amountNet),
                             CamelEffect("CASH_INCREASE", amountNet) >>,
                          0, amountNet, 0, 0)
         IN  IF ~authed THEN Fail(p, c, "Not authenticated")
             ELSE IF entityId = Null \/ amountNet = 0
                  THEN Fail(p, c, "Missing required fields")
             ELSE IF amountNet <= 0
                  THEN Fail(p, c, "Income amount must be positive")
             ELSE Record(p, c, authedRecorder)
    /\ UNCHANGED << recorder, logCap, events, delivered, store, reader, built >>

voidIncome(p) ==
    /\ CanStart(p)
    /\ \E incomeEventId \in 1..MaxEvents, reason \in Reasons, authed \in BOOLEAN :
         Record(p, NewCall("voidIncome", Null, "REVENUE_DEFERRED",
                           Desc("Void of previous income", reason),
                           << CamelEffect("INCOME_RECOGNIZED", 0) >>,
                           incomeEventId, 0, 0, 0), authed)
    /\ UNCHANGED << recorder, logCap, events, delivered, store, reader, built >>

(***************************************************************************)
(* expenseService.js                                                       *)
(***************************************************************************)
addExpense(p) ==
    /\ CanStart(p)
    /\ \E entityId \in ServiceEntityArgs, amount \in AmountArgs,
          authed \in BOOLEAN, authedRecorder \in BOOLEAN :
         LET c == NewCall("addExpense", entityId, "EXPENSE_INCURRED",
                          Desc("Expense", ""),
                          << CamelEffect("EXPENSE_RECOGNIZED", -amount),
                             CamelEffect("CASH_DECREASE", -amount) >>,
                          0, amount, 0, 0)
         IN  IF ~authed THEN Fail(p, c, "Not authenticated")
             ELSE IF entityId = Null \/ amount = 0
                  THEN Fail(p, c, "Missing required fields")
             ELSE IF amount <= 0
                  THEN Fail(p, c, "Expense amount must be positive")
             ELSE Record(p, c, authedRecorder)
    /\ UNCHANGED << recorder, logCap, events, delivered, store, reader, built >>

voidExpense(p) ==
    /\ CanStart(p)
    /\ \E expenseEventId \in 1..MaxEvents, reason \in Reasons, authed \in BOOLEAN :
         Record(p, NewCall("voidExpense", Null, "PREPAID_EXPENSE_AMORTIZED",
                           Desc("Void of previous expense", reason),
                           << CamelEffect("EXPENSE_RECOGNIZED", 0) >>,
                           expenseEventId, 0, 0, 0), authed)
    /\ UNCHANGED << recorder, logCap, events, delivered, store, reader, built >>

\* effects.find(e => e.effect_type === type) over the rows the recorder returned
FindEffect(c, type) ==
    LET hits == {k \in 1..Len(c.effects) : c.effects[k].effectType = type}
    IN  IF hits = {} THEN 0 ELSE CHOOSE k \in hits : \A j \in hits : k <= j

RecognitionRow(table, effectId, amount) ==
    [table |-> table, effect_id |-> effectId, amount |-> amount]

\* income_recognitions.insert / expense_recognitions.insert, then return
InsertRecognition(p, table, type) ==
    LET c == call[p]
        k == FindEffect(c, type)
    IN  IF k = 0
        THEN /\ Fail(p, c, "Failed to create effect")
             /\ UNCHANGED recognitions
        ELSE \E ok \in BOOLEAN :
               IF ok /\ << c.eventId, k >> \in {x.id : x \in event_effects}
               THEN /\ recognitions' = recognitions \cup
                          { RecognitionRow(table, << c.eventId, k >>, c.amount) }
                    /\ Succeed(p, c)
               ELSE /\ Fail(p, c, "insert into recognitions failed")
                    /\ UNCHANGED recognitions

addIncome_insertRecognition(p) ==
    /\ pc[p] = "post"
    /\ call[p].op = "addIncome"
    /\ InsertRecognition(p, "income_recognitions", "INCOME_RECOGNIZED")
    /\ UNCHANGED << recorder, logCap, events, delivered,
                    entities, economic_events, event_effects, assets,
                    liabilities, nextEventId, reader, built >>

addExpense_insertRecognition(p) ==
    /\ pc[p] = "post"
    /\ call[p].op = "addExpense"
    /\ InsertRecognition(p, "expense_recognitions", "EXPENSE_RECOGNIZED")
    /\ UNCHANGED << recorder, logCap, events, delivered,
                    entities, economic_events, event_effects, assets,
                    liabilities, nextEventId, reader, built >>

(***************************************************************************)
(* assetService.js.  The handlers of the model create STRAIGHT_LINE        *)
(* assets; monthsUsed, the calendar months between the acquisition and     *)
(* the clock at the time of the call, is an input of the call.             *)
(***************************************************************************)
AssetRow(id, entityId, effectId, initialValue, method, usefulLife) ==
    [id |-> id, entity_id |-> entityId, originating_effect_id |-> effectId,
     initial_value |-> initialValue, depreciation_method |-> method,
     useful_life_months |-> usefulLife, disposed_event_id |-> 0]

RECURSIVE Pow(_, _)
Pow(b, n) == IF n = 0 THEN 1 ELSE b * Pow(b, n - 1)

Max(a, b) == IF a >= b THEN a ELSE b

\* calendar dates, as far as getFullYear() and getMonth() read them
Date(year, month) == [year |-> year, month |-> month]

DateBefore(a, b) ==
    a.year < b.year \/ (a.year = b.year /\ a.month < b.month)

calculateMonthsUsedSigned(acquisitionDate, today) ==
    (today.year - acquisitionDate.year) * 12
      + (today.month - acquisitionDate.month)

\* calculateMonthsUsed(acquisitionDate), with the clock's `today` as a parameter
calculateMonthsUsed(acquisitionDate, today) ==
    LET months == (today.year - acquisitionDate.year) * 12
                    + (today.month - acquisitionDate.month)
    IN  Max(0, months)

calculateDepreciationOfRemainingLife(asset, monthsUsed) ==
    IF asset.useful_life_months = 0 THEN 0
    ELSE CASE asset.depreciation_method = "STRAIGHT_LINE" ->
                (asset.initial_value \div asset.useful_life_months)
                  * (asset.useful_life_months - monthsUsed)
           [] asset.depreciation_method = "DIMINISHING_BALANCE" ->
                asset.initial_value
                  - (asset.initial_value * Pow(4, monthsUsed \div 12))
                      \div Pow(5, monthsUsed \div 12)
           [] OTHER -> 0

\* calculateDepreciation(asset), with monthsUsed as a parameter.  The values
\* are exact on the inputs of the model: useful lives divide the initial
\* values, and DIMINISHING_BALANCE assets are valued after whole years, where
\* 1 - 0.8 ^ yearsUsed is (5 ^ yearsUsed - 4 ^ yearsUsed) / 5 ^ yearsUsed.
calculateDepreciation(asset, monthsUsed) ==
    IF asset.useful_life_months = 0 THEN 0
    ELSE CASE asset.depreciation_method = "STRAIGHT_LINE" ->
                LET monthlyDepreciation ==
                      asset.initial_value \div asset.useful_life_months
                IN  monthlyDepreciation * monthsUsed
           [] asset.depreciation_method = "DIMINISHING_BALANCE" ->
                LET yearsUsed == monthsUsed \div 12
                IN  asset.initial_value
                      - (asset.initial_value * Pow(4, yearsUsed))
                          \div Pow(5, yearsUsed)
           [] OTHER -> 0

\* getAssetsByEntity: bookValue = asset.initial_value - accumulated
BookValue(asset, today) ==
    asset.initial_value
      - calculateDepreciation(asset,
                              calculateMonthsUsed(asset.acquisition_date, today))

addAsset(p) ==
    /\ CanStart(p)
    /\ \E entityId \in ServiceEntityArgs, initialValue \in AmountArgs,
          usefulLifeMonths \in UsefulLifeArgs,
          authed \in BOOLEAN, authedRecorder \in BOOLEAN :
         LET c == NewCall("addAsset", entityId, "ASSET_ACQUIRED",
                          Desc("Asset acquired", ""),
                          << CamelEffect("ASSET_INCREASE", initialValue) >>,
                          0, initialValue, 0, usefulLifeMonths)
         IN  IF ~authed THEN Fail(p, c, "Not authenticated")
             ELSE IF entityId = Null \/ initialValue = 0
                  THEN Fail(p, c, "Missing required fields")
             ELSE IF initialValue <= 0
                  THEN Fail(p, c, "Asset value must be positive")
             ELSE Record(p, c, authedRecorder)
    /\ UNCHANGED << recorder, logCap, events, delivered, store, reader, built >>

\* assets.insert({... originating_effect_id: effects[0].id ...}), then return
addAsset_insertAsset(p) ==
    /\ pc[p] = "post"
    /\ call[p].op = "addAsset"
    /\ \E ok \in BOOLEAN :
         LET c == call[p]
         IN  IF ok /\ c.entityId \in entities
                   /\ << c.eventId, 1 >> \in {x.id : x \in event_effects}
             THEN /\ assets' = assets \cup
                        { AssetRow(c.eventId, c.entityId, << c.eventId, 1 >>,
                                   c.amount, "STRAIGHT_LINE", c.extra) }
                  /\ Succeed(p, c)
             ELSE /\ Fail(p, c, "insert into assets failed")
                  /\ UNCHANGED assets
    /\ UNCHANGED << recorder, logCap, events, delivered,
                    entities, economic_events, event_effects,
                    recognitions, liabilities, nextEventId, reader, built >>

\* select the asset, compute the gain, enter the recorder
disposeAsset(p) ==
    /\ CanStart(p)
    /\ \E assetId \in 1..MaxEvents, disposalProceeds \in LedgerAmounts \cup {0},
          monthsUsed \in 0..MaxMonths, authed \in BOOLEAN :
         LET found == {a \in assets : a.id = assetId}
         IN  IF found = {}
             THEN Fail(p, NewCall("disposeAsset", Null, "ASSET_DISPOSED",
                                  Desc("Asset disposed", ""), << >>,
                                  assetId, 0, 0, 0), "Asset not found")
             ELSE LET asset == CHOOSE a \in found : TRUE
                      bookValue == asset.initial_value
                                     - calculateDepreciation(asset, monthsUsed)
                      gain == disposalProceeds - bookValue
                  IN  Record(p, NewCall("disposeAsset", asset.entity_id,
                                 "ASSET_DISPOSED", Desc("Asset disposed", ""),
                                 << CamelEffect("ASSET_DECREASE", -asset.initial_value),
                                    CamelEffect(IF gain >= 0 THEN "INCOME_RECOGNIZED"
                                                ELSE "EXPENSE_RECOGNIZED", gain) >>,
                                 assetId, gain, 0, 0), authed)
    /\ UNCHANGED << recorder, logCap, events, delivered, store, reader, built >>

\* assets.update({disposed_event_id}).eq('id', assetId), then return
SetDisposed(rows, assetId, eventId) ==
    { IF a.id = assetId THEN [a EXCEPT !.disposed_event_id = eventId] ELSE a
        : a \in rows }

disposeAsset_update(p) ==
    /\ pc[p] = "post"
    /\ call[p].op = "disposeAsset"
    /\ \E ok \in BOOLEAN :
         IF ok
         THEN /\ assets' = SetDisposed(assets, call[p].target, call[p].eventId)
              /\ Succeed(p, call[p])
         ELSE /\ Fail(p, call[p], "update of assets failed")
              /\ UNCHANGED assets
    /\ UNCHANGED << recorder, logCap, events, delivered,
                    entities, economic_events, event_effects,
                    recognitions, liabilities, nextEventId, reader, built >>

(***************************************************************************)
(* liabilityService.js.  years, the time since the liability row was       *)
(* created, is an input of the call (whole years); interest_rate is kept   *)
(* in percent.                                                             *)
(***************************************************************************)
LiabilityRow(id, entityId, effectId, principal, rate) ==
    [id |-> id, entity_id |-> entityId, originating_effect_id |-> effectId,
     principal_amount |-> principal, interest_rate |-> rate,
     extinguished_event_id |-> 0]

calculateInterest(liability, years) ==
    IF liability.interest_rate = 0 THEN 0
    ELSE LET principal == liability.principal_amount
             rate == liability.interest_rate
             compounded == (principal * Pow(100 + rate, years)) \div Pow(100, years)
                             - principal
             simple == (principal * rate * years) \div 100
         IN  compounded

addLiability(p) ==
    /\ CanStart(p)
    /\ \E entityId \in ServiceEntityArgs, principalAmount \in AmountArgs,
          interestRate \in RateArgs,
          authed \in BOOLEAN, authedRecorder \in BOOLEAN :
         LET c == NewCall("addLiability", entityId, "LIABILITY_INCURRED",
                          Desc("Liability incurred", ""),
                          << CamelEffect("LIABILITY_INCREASE", principalAmount),
                             CamelEffect("CASH_INCREASE", principalAmount) >>,
                          0, principalAmount, 0, interestRate)
         IN  IF ~authed THEN Fail(p, c, "Not authenticated")
             ELSE IF entityId = Null \/ principalAmount = 0
                  THEN Fail(p, c, "Missing required fields")
             ELSE IF principalAmount <= 0
                  THEN Fail(p, c, "Principal amount must be positive")
             ELSE Record(p, c, authedRecorder)
    /\ UNCHANGED << recorder, logCap, events, delivered, store, reader, built >>

\* liabilities.insert({... originating_effect_id: effects[0].id ...}), then return
addLiability_insertLiability(p) ==
    /\ pc[p] = "post"
    /\ call[p].op = "addLiability"
    /\ \E ok \in BOOLEAN :
         LET c == call[p]
         IN  IF ok /\ c.entityId \in entities
                   /\ << c.eventId, 1 >> \in {x.id : x \in event_effects}
             THEN /\ liabilities' = liabilities \cup
                        { LiabilityRow(c.eventId, c.entityId, << c.eventId, 1 >>,
                                       c.amount, c.extra) }
                  /\ Succeed(p, c)
             ELSE /\ Fail(p, c, "insert into liabilities failed")
                  /\ UNCHANGED liabilities
    /\ UNCHANGED << recorder, logCap, events, delivered,
                    entities, economic_events, event_effects,
                    recognitions, assets, nextEventId, reader, built >>

\* select the liability, compute the remaining balance, enter the recorder
recordLiabilityPayment(p) ==
    /\ CanStart(p)
    /\ \E liabilityId \in 1..MaxEvents, paymentAmount \in LedgerAmounts,
          years \in 0..MaxYears, authed \in BOOLEAN :
         LET found == {l \in liabilities : l.id = liabilityId}
         IN  IF found = {}
             THEN Fail(p, NewCall("recordLiabilityPayment", Null, "LIABILITY_SETTLED",
                                  Desc("Liability payment", ""), << >>,
                                  liabilityId, paymentAmount, 0, 0),
                       "Liability not found")
             ELSE LET liability == CHOOSE l \in found : TRUE
                      currentBalance == liability.principal_amount
                                          + calculateInterest(liability, years)
                      remainingBalance == Max(0, currentBalance - paymentAmount)
                  IN  Record(p, NewCall("recordLiabilityPayment", liability.entity_id,
                                 "LIABILITY_SETTLED", Desc("Liability payment", ""),
                                 << CamelEffect("LIABILITY_DECREASE", -paymentAmount),
                                    CamelEffect("CASH_DECREASE", -paymentAmount) >>,
                                 liabilityId, paymentAmount, remainingBalance, 0),
                             authed)
    /\ UNCHANGED << recorder, logCap, events, delivered, store, reader, built >>

\* if (remainingBalance === 0) liabilities.update({extinguished_event_id})
SetExtinguished(rows, liabilityId, eventId) ==
    { IF l.id = liabilityId THEN [l EXCEPT !.extinguished_event_id = eventId] ELSE l
        : l \in rows }

recordLiabilityPayment_update(p) ==
    /\ pc[p] = "post"
    /\ call[p].op = "recordLiabilityPayment"
    /\ \E ok \in BOOLEAN :
         IF ok
         THEN /\ liabilities' = SetExtinguished(liabilities, call[p].target,
                                                call[p].eventId)
              /\ Succeed(p, call[p])
         ELSE /\ Fail(p, call[p], "update of liabilities failed")
              /\ UNCHANGED liabilities
    /\ UNCHANGED << recorder, logCap, events, delivered,
                    entities, economic_events, event_effects,
                    recognitions, assets, nextEventId, reader, built >>

(***************************************************************************)
(* The handler returns to its caller.                                      *)
(***************************************************************************)
Return(p) ==
    /\ pc[p] = "done"
    /\ pc' = [pc EXCEPT ![p] = "idle"]
    /\ call' = [call EXCEPT ![p] = IdleCall]
    /\ UNCHANGED << recorder, logCap, events, delivered, store, reader, built >>

(***************************************************************************)
(* entityService.js deleteEntity: entities.delete().eq('id', entityId)     *)
(* .eq('created_by', user.id); the foreign keys cascade.                   *)
(***************************************************************************)
CascadeEvents(entityId) == {e \in economic_events : e.entity_id # entityId}

deleteEntity ==
    /\ \E entityId \in entities :
         /\ EntityOwner[entityId] = CurrentUser
         /\ entities' = entities \ {entityId}
         /\ economic_events' = CascadeEvents(entityId)
         /\ event_effects' =
              {x \in event_effects : x.event_id \in {e.id : e \in CascadeEvents(entityId)}}
         /\ recognitions' =
              {r \in recognitions :
                 r.effect_id[1] \in {e.id : e \in CascadeEvents(entityId)}}
         /\ assets' = {a \in assets : a.entity_id # entityId}
         /\ liabilities' = {l \in liabilities : l.entity_id # entityId}
    /\ UNCHANGED << recorder, logCap, events, delivered,
                    nextEventId, pc, call, reader, built >>

(***************************************************************************)
(* Readers.  getEventWithEffects issues two selects; sumEffectsByType one  *)
(* select over event_effects inner-joined with economic_events.            *)
(***************************************************************************)
getEventWithEffects_selectEvent ==
    /\ reader.pc = "idle"
    /\ \E eventId \in 1..MaxEvents :
         LET found == {e \in economic_events : e.id = eventId}
         IN  reader' = IF found = {}
                       THEN IdleReader        \* .single() fails: { success: false }
                       ELSE [IdleReader EXCEPT !.pc = "select_effects",
                                               !.eventId = eventId, !.event = found]
    /\ UNCHANGED << recorder, logCap, events, delivered, store, pc, call, built >>

getEventWithEffects_selectEffects ==
    /\ reader.pc = "select_effects"
    /\ reader' = [reader EXCEPT !.pc = "done", !.result = "success",
                                !.effects = EffectsOf(reader.eventId)]
    /\ UNCHANGED << recorder, logCap, events, delivered, store, pc, call, built >>

getEventWithEffects_return ==
    /\ reader.pc = "done"
    /\ reader' = IdleReader
    /\ UNCHANGED << recorder, logCap, events, delivered, store, pc, call, built >>

RECURSIVE SumRows(_)
SumRows(rows) ==
    IF rows = {} THEN 0
    ELSE LET row == CHOOSE r \in rows : TRUE
         IN  row.amount * row.effect_sign + SumRows(rows \ {row})

RECURSIVE SumAmounts(_)
SumAmounts(rows) ==
    IF rows = {} THEN 0
    ELSE LET row == CHOOSE r \in rows : TRUE
         IN  row.amount + SumAmounts(rows \ {row})

sumEffectsByTypeUnsigned(entityId, effectType) ==
    SumAmounts({x \in event_effects :
                  /\ x.effect_type = effectType
                  /\ \E e \in economic_events :
                       e.id = x.event_id /\ e.entity_id = entityId})

\* sumEffectsByType(entityId, effectType) without a date range
sumEffectsByType(entityId, effectType) ==
    SumRows({x \in event_effects :
               /\ x.effect_type = effectType
               /\ \E e \in economic_events :
                    e.id = x.event_id /\ e.entity_id = entityId})

(***************************************************************************)
(* The two EventModal components: one submits a catalog entry's effects    *)
(* straight to the RPC, the other a factory's template through the         *)
(* recorder of eventOrchestrator.js (validation, then the same RPC).       *)
(***************************************************************************)
SubmitRpc(entityId, eventType, effects) ==
    \E ok \in BOOLEAN :
      IF /\ ok
         /\ RecordEconomicEventFnError(CurrentUser, entityId, effects) = ""
      THEN /\ economic_events' = economic_events \cup
                 { EventRow(nextEventId, CurrentUser, entityId, eventType,
                            Desc("", "")) }
           /\ event_effects' = event_effects \cup RpcPayloads(nextEventId, effects)
           /\ nextEventId' = nextEventId + 1
      ELSE UNCHANGED << economic_events, event_effects, nextEventId >>

EventModal_handleSubmit ==
    /\ nextEventId <= logCap
    /\ \E value \in ArchetypeNames, numericAmount \in LedgerAmounts \cup {0} :
         IF numericAmount <= 0
         THEN UNCHANGED << economic_events, event_effects, nextEventId >>
         ELSE SubmitRpc("e1", value, buildEffects(value, numericAmount))
    /\ UNCHANGED << recorder, logCap, events, delivered, entities, recognitions,
                    assets, liabilities, pc, call, reader, built >>

(***************************************************************************)
(* domain/events/eventOrchestrator.js recordEconomicEvent: the same        *)
(* validation and RPC as the recorder of eventService.js, without the      *)
(* try/catch: every failure is thrown, success returns the event id.       *)
(***************************************************************************)
Throw(p, c, message) ==
    /\ pc' = [pc EXCEPT ![p] = "done"]
    /\ call' = [call EXCEPT ![p] = [c EXCEPT !.result = "thrown", !.error = message]]

OrchestratorPreludeError(c, authed) ==
    IF c.entityId = Null THEN "entityId is required"
    ELSE IF Len(c.effects) < MinEffects THEN "At least two effects are required"
    ELSE IF ~authed THEN "User not authenticated"
    ELSE ""

eventOrchestrator_recordEconomicEvent(p) ==
    /\ CanStart(p)
    /\ \E entityId \in EntityArgs, effects \in RawEffects, authed, ok \in BOOLEAN :
         LET c == NewCall("eventOrchestrator.recordEconomicEvent", entityId,
                          "REVENUE_EARNED", Desc("", ""), effects, 0, 0, 0, 0)
             err == OrchestratorPreludeError(c, authed)
         IN  IF err # "" THEN
                 /\ Throw(p, c, err)
                 /\ UNCHANGED << economic_events, event_effects, nextEventId,
                                 delivered >>
             ELSE IF RecordEconomicEventFnError(CurrentUser, entityId, effects) # ""
                     \/ ~ok THEN
                 /\ Throw(p, c, "record_economic_event failed")
                 /\ UNCHANGED << economic_events, event_effects, nextEventId,
                                 delivered >>
             ELSE
                 /\ economic_events' = economic_events \cup
                       { EventRow(nextEventId, CurrentUser, entityId, c.eventType,
                                  c.description) }
                 /\ event_effects' = event_effects \cup
                       RpcPayloads(nextEventId, effects)
                 /\ nextEventId' = nextEventId + 1
                 /\ emit(EventData(Undefined, Undefined, 0))
                 /\ Succeed(p, [c EXCEPT !.eventId = nextEventId])
    /\ UNCHANGED << recorder, logCap, events, entities, recognitions, assets,
                    liabilities, reader, built >>

(***************************************************************************)
(* Pages subscribe while mounted: useEffect(() => { eventEmitter.on(...);  *)
(* return () => eventEmitter.off(...) }).                                  *)
(***************************************************************************)
\* on(eventName, callback): this.events[eventName].push(callback)
on(callback) ==
    /\ \A i \in 1..Len(events) : events[i] # callback
    /\ events' = Append(events, callback)
    /\ UNCHANGED << recorder, logCap, delivered, store, pc, call, reader, built >>

\* off(eventName, callback): filter(cb => cb !== callback)
off(callback) ==
    /\ \E i \in 1..Len(events) : events[i] = callback
    /\ events' = SelectSeq(events, LAMBDA cb : cb # callback)
    /\ UNCHANGED << recorder, logCap, delivered, store, pc, call, reader, built >>

ModalTemplates ==
    {"revenueEarned", "expenseIncurred", "assetAcquiredWithCash", "liabilityIncurred"}

EventModal_handleSubmitTemplate ==
    /\ nextEventId <= logCap
    /\ \E name \in ModalTemplates, numericAmount \in LedgerAmounts :
         LET preview == Factory(name, numericAmount)
         IN  IF Len(preview.effects) < MinEffects
             THEN UNCHANGED << economic_events, event_effects, nextEventId,
                               delivered >>
             ELSE /\ SubmitRpc("e1", preview.eventType, preview.effects)
                  /\ IF nextEventId' # nextEventId
                     THEN emit(EventData(Undefined, Undefined, 0))
                     ELSE UNCHANGED delivered
    /\ UNCHANGED << recorder, logCap, events, entities, recognitions, assets,
                    liabilities, pc, call, reader, built >>

(***************************************************************************)
(* The pure builders, applied to inputs drawn by the initial state.        *)
(***************************************************************************)
BuilderInputs ==
    { [source |-> "catalog", name |-> n, amount |-> a, effects |-> << >>,
       stage |-> "input"] : n \in ArchetypeNames, a \in Amounts }
    \cup
    { [source |-> "factory", name |-> n, amount |-> a, effects |-> << >>,
       stage |-> "input"] : n \in FactoryNames, a \in Amounts }

Build ==
    /\ built.stage = "input"
    /\ built' = [built EXCEPT
                   !.stage = "built",
                   !.effects = IF built.source = "catalog"
                               THEN buildEffects(built.name, built.amount)
                               ELSE Factory(built.name, built.amount).effects]
    /\ UNCHANGED << recorder, logCap, events, delivered, store, pc, call, reader >>

(***************************************************************************)
(* The helpers of effectBuilders.js, applied to amounts of either sign.    *)
(* A helper has no check and no throw: it returns the record it builds.    *)
(***************************************************************************)
HelperNames ==
    {"cashIncrease", "cashDecrease", "assetIncrease", "assetDecrease",
     "liabilityIncrease", "liabilityDecrease", "incomeRecognized",
     "expenseRecognized"}

HelperAmounts == Amounts \cup {0} \cup {-a : a \in Amounts}

Helper(name, amount) ==
    CASE name = "cashIncrease" -> cashIncrease(amount)
      [] name = "cashDecrease" -> cashDecrease(amount)
      [] name = "assetIncrease" -> assetIncrease(amount)
      [] name = "assetDecrease" -> assetDecrease(amount)
      [] name = "liabilityIncrease" -> liabilityIncrease(amount)
      [] name = "liabilityDecrease" -> liabilityDecrease(amount)
      [] name = "incomeRecognized" -> incomeRecognized(amount)
      [] name = "expenseRecognized" -> expenseRecognized(amount)

HelperInputs ==
    { [source |-> "builder", name |-> n, amount |-> a, effects |-> << >>,
       stage |-> "input"] : n \in HelperNames, a \in HelperAmounts }

BuildEffect ==
    /\ built.stage = "input"
    /\ built.source = "builder"
    /\ built' = [built EXCEPT !.stage = "built",
                              !.effects = << Helper(built.name, built.amount) >>]
    /\ UNCHANGED << recorder, logCap, events, delivered, store, pc, call, reader >>

(***************************************************************************)
(* The interest engine of liabilityService.js, applied to the row that     *)
(* addLiability inserts for its arguments: interestMethod is an argument   *)
(* of addLiability and no column of the row.                               *)
(***************************************************************************)
InterestMethods == {"SIMPLE", "COMPOUND", Undefined}

InterestYears == 0..(MaxYears + 1)

InterestInputs ==
    { [source |-> "interest", stage |-> "input", principalAmount |-> a,
       interestRate |-> r, interestMethod |-> m, years |-> y, accrued |-> 0,
       balance |-> 0] :
         a \in Amounts, r \in RateArgs, m \in InterestMethods, y \in InterestYears }

\* the row of liabilities.insert({...}) for the arguments of addLiability
InsertedLiability(principalAmount, interestRate, interestMethod) ==
    LiabilityRow(1, "e1", << 1, 1 >>, principalAmount, interestRate)

\* getLiabilitiesByEntity's map over the liability, years after it was added
Accrue ==
    /\ built.stage = "input"
    /\ built.source = "interest"
    /\ LET liability == InsertedLiability(built.principalAmount, built.interestRate,
                                          built.interestMethod)
           accumulatedInterest == calculateInterest(liability, built.years)
       IN  built' = [built EXCEPT
                       !.stage = "accrued",
                       !.accrued = accumulatedInterest,
                       !.balance = liability.principal_amount + accumulatedInterest]
    /\ UNCHANGED << recorder, logCap, events, delivered, store, pc, call, reader >>

(***************************************************************************)
(* The depreciation engine, applied to assets and clock readings drawn by  *)
(* the initial state.  Initial values are multiples of 300, so that the    *)
(* useful lives 4 and 12 and the powers of 5 divide them.                  *)
(***************************************************************************)
DepreciationMethods ==
    {"STRAIGHT_LINE", "DIMINISHING_BALANCE", "UNITS_OF_PRODUCTION"}

AssetValues == {300 * k : k \in 1..MaxAmount}
UsefulLives == {0, 4, 12}
Dates == {Date(y, m) : y \in 0..MaxYears, m \in {0, 4, 11}}

ValuedAsset(initialValue, method, usefulLife, acquisitionDate) ==
    [initial_value |-> initialValue, depreciation_method |-> method,
     useful_life_months |-> usefulLife, acquisition_date |-> acquisitionDate]

ValuationInputs ==
    { [stage |-> "asset",
       asset |-> ValuedAsset(v, method, life, acquired),
       t1 |-> t1, t2 |-> t2,
       accumulated |-> 0, bookValue1 |-> 0, bookValue2 |-> 0, again |-> 0] :
        v \in AssetValues, method \in DepreciationMethods, life \in UsefulLives,
        acquired \in Dates, t1 \in Dates, t2 \in Dates }

\* DIMINISHING_BALANCE assets are valued on anniversaries of the acquisition
WholeYears(input) ==
    input.asset.depreciation_method = "DIMINISHING_BALANCE"
      => /\ input.t1.month = input.asset.acquisition_date.month
         /\ input.t2.month = input.asset.acquisition_date.month

\* getAssetsByEntity's map over one asset, with the clock at t1, at t2, and
\* at t1 once more
Value ==
    /\ built.stage = "asset"
    /\ built' = [built EXCEPT
                   !.stage = "valued",
                   !.accumulated =
                      calculateDepreciation(built.asset,
                        calculateMonthsUsed(built.asset.acquisition_date, built.t1)),
                   !.bookValue1 = BookValue(built.asset, built.t1),
                   !.bookValue2 = BookValue(built.asset, built.t2),
                   !.again = BookValue(built.asset, built.t1)]
    /\ UNCHANGED << recorder, logCap, events, delivered, store, pc, call, reader >>

(***************************************************************************)
(* analyticsService.js getCashFlow, applied to ledgers drawn by the        *)
(* initial state.  A ledger is what the writers leave behind: addIncome    *)
(* and addExpense through the direct recorder (effect types CASH_INCREASE  *)
(* and CASH_DECREASE, signed amounts, no effect_sign), catalog entries     *)
(* through the RPC (effect type CASH, positive amounts, effect_sign).      *)
(* event_date is the date the caller gave, created_at the day the row was  *)
(* written.                                                                *)
(***************************************************************************)
Days == {1, 2}

CashFlowWriters == {"addIncome", "addExpense", "CASH_SALE", "CASH_EXPENSE"}

LedgerEntries ==
    [writer : CashFlowWriters, amount : LedgerAmounts, event_date : Days,
     created_at : Days]

CashLedgers == UNION { [1..n -> LedgerEntries] : n \in 0..MaxEvents }

\* a row with one more column
Dated(row, column, day) ==
    [f \in DOMAIN row \cup {column} |-> IF f = column THEN day ELSE row[f]]

LedgerEventType(writer) ==
    CASE writer = "addIncome" -> "REVENUE_EARNED"
      [] writer = "addExpense" -> "EXPENSE_INCURRED"
      [] OTHER -> writer

LedgerPayloads(id, entry) ==
    CASE entry.writer = "addIncome" ->
           DirectPayloads(id, << CamelEffect("INCOME_RECOGNIZED", entry.amount),
                                 CamelEffect("CASH_INCREASE", entry.amount) >>)
      [] entry.writer = "addExpense" ->
           DirectPayloads(id, << CamelEffect("EXPENSE_RECOGNIZED", -entry.amount),
                                 CamelEffect("CASH_DECREASE", -entry.amount) >>)
      [] OTHER -> RpcPayloads(id, buildEffects(entry.writer, entry.amount))

LedgerEvents(ledger) ==
    { Dated(EventRow(id, CurrentUser, "e1", LedgerEventType(ledger[id].writer),
                     Desc("", "")),
            "event_date", ledger[id].event_date) : id \in DOMAIN ledger }

LedgerEffects(ledger) ==
    UNION { { Dated(x, "created_at", ledger[id].created_at) :
                x \in LedgerPayloads(id, ledger[id]) } : id \in DOMAIN ledger }

CashFlowQueries ==
    { [source |-> "getCashFlow", stage |-> "query", entityId |-> "e1",
       startDate |-> a, endDate |-> b, data |-> << >>] :
         a \in Days, b \in Days }

\* safeAbs
safeAbs(v) == IF v < 0 THEN -v ELSE v

\* Object.entries(flowByDate).sort(...): the days in ascending order
RECURSIVE SortedDays(_)
SortedDays(days) ==
    IF days = {} THEN << >>
    ELSE LET first == CHOOSE d \in days : \A other \in days : d <= other
         IN  << first >> \o SortedDays(days \ {first})

\* step 1: the ids of the entity's events dated in the range
CashFlowEventIds(entityId, startDate, endDate) ==
    { e.id : e \in { x \in economic_events :
                       /\ x.entity_id = entityId
                       /\ x.event_date >= startDate
                       /\ x.event_date <= endDate } }

\* step 2: the cash effects of these events
CashFlowEffects(eventIds) ==
    { x \in event_effects :
        /\ x.effect_type \in {"CASH_INCREASE", "CASH_DECREASE"}
        /\ x.event_id \in eventIds }

\* flowByDate[date] after the forEach
FlowOfDay(effects, date) ==
    LET ofDay == {x \in effects : x.created_at = date}
    IN  [inflow |-> SumAmounts({x \in ofDay : x.amount > 0}),
         outflow |-> safeAbs(SumAmounts({x \in ofDay : ~(x.amount > 0)})),
         net |-> SumAmounts(ofDay)]

\* the rows, with runningBalance the sum of net up to each row
CashFlowRows(effects) ==
    LET dates == SortedDays({x.created_at : x \in effects})
    IN  [i \in 1..Len(dates) |->
           LET flow == FlowOfDay(effects, dates[i])
           IN  [date |-> dates[i], inflow |-> flow.inflow,
                outflow |-> flow.outflow, net |-> flow.net,
                runningBalance |->
                   SumAmounts({x \in effects : x.created_at <= dates[i]})]]

getCashFlow ==
    /\ built.stage = "query"
    /\ LET eventIds == CashFlowEventIds(built.entityId, built.startDate,
                                        built.endDate)
       IN  built' = [built EXCEPT
                       !.stage = "returned",
                       !.data = IF eventIds = {} THEN << >>
                                ELSE CashFlowRows(CashFlowEffects(eventIds))]
    /\ UNCHANGED << recorder, logCap, events, delivered, store, pc, call, reader >>

(***************************************************************************)
(* analyticsService.js getIncomeStatement, applied to the same ledgers.    *)
(***************************************************************************)
IncomeStatementQueries ==
    { [source |-> "getIncomeStatement", stage |-> "query", entityId |-> "e1",
       startDate |-> a, endDate |-> b, data |-> << >>] :
         a \in Days, b \in Days }

\* steps 2 and 3: the effects of one type of these events
StatementEffects(effectType, eventIds) ==
    { x \in event_effects :
        /\ x.effect_type = effectType
        /\ x.event_id \in eventIds }

\* totalExpenses: the sum of safeAbs(rec.amount)
RECURSIVE SumSafeAbs(_)
SumSafeAbs(rows) ==
    IF rows = {} THEN 0
    ELSE LET row == CHOOSE r \in rows : TRUE
         IN  safeAbs(row.amount) + SumSafeAbs(rows \ {row})

IncomeStatement(eventIds) ==
    LET totalIncome == SumAmounts(StatementEffects("INCOME_RECOGNIZED", eventIds))
        totalExpenses == SumSafeAbs(StatementEffects("EXPENSE_RECOGNIZED", eventIds))
        deductibleExpenses == totalExpenses
    IN  [totalIncome |-> totalIncome,
         totalExpenses |-> totalExpenses,
         deductibleExpenses |-> deductibleExpenses,
         nonDeductibleExpenses |-> 0,
         netIncome |-> totalIncome - totalExpenses,
         taxableIncome |-> totalIncome - deductibleExpenses]

getIncomeStatement ==
    /\ built.stage = "query"
    /\ built.source = "getIncomeStatement"
    /\ built' = [built EXCEPT
                   !.stage = "returned",
                   !.data = IncomeStatement(
                               CashFlowEventIds(built.entityId, built.startDate,
                                                built.endDate))]
    /\ UNCHANGED << recorder, logCap, events, delivered, store, pc, call, reader >>

(***************************************************************************)
(* analyticsService.js getBalanceSheet: two queries, one after the other,  *)
(* beside the writers of assets and liabilities.  A query that fails       *)
(* contributes nothing and the call still returns success.                 *)
(***************************************************************************)
\* assets.select(...).eq('entity_id', entityId).is('disposed_event_id', null)
SelectLiveAssets(entityId) ==
    {a \in assets : a.entity_id = entityId /\ a.disposed_event_id = 0}

\* liabilities.select(...).eq('entity_id', entityId).is('extinguished_event_id', null)
SelectLiveLiabilities(entityId) ==
    {l \in liabilities : l.entity_id = entityId /\ l.extinguished_event_id = 0}

RECURSIVE SumField(_, _)
SumField(rows, field) ==
    IF rows = {} THEN 0
    ELSE LET row == CHOOSE r \in rows : TRUE
         IN  row[field] + SumField(rows \ {row}, field)

getBalanceSheet_selectAssets ==
    /\ built.stage = "none"
    /\ \E entityId \in {"e1"}, ok \in BOOLEAN :
         LET rows == IF ok THEN SelectLiveAssets(entityId) ELSE {}
         IN  built' = [source |-> "getBalanceSheet", stage |-> "assets",
                       entityId |-> entityId, assetError |-> ~ok,
                       liabError |-> FALSE,
                       assetIds |-> {a.id : a \in rows},
                       liabilityIds |-> {},
                       totalAssets |-> SumField(rows, "initial_value"),
                       totalLiabilities |-> 0, equity |-> 0]
    /\ UNCHANGED << recorder, logCap, events, delivered, store, pc, call, reader >>

getBalanceSheet_selectLiabilities ==
    /\ built.stage = "assets"
    /\ \E ok \in BOOLEAN :
         LET rows == IF ok THEN SelectLiveLiabilities(built.entityId) ELSE {}
             totalLiabilities == SumField(rows, "principal_amount")
         IN  built' = [built EXCEPT
                         !.stage = "returned",
                         !.liabError = ~ok,
                         !.liabilityIds = {l.id : l \in rows},
                         !.totalLiabilities = totalLiabilities,
                         !.equity = built.totalAssets - totalLiabilities]
    /\ UNCHANGED << recorder, logCap, events, delivered, store, pc, call, reader >>

\* the caller takes the result
getBalanceSheet_return ==
    /\ built.stage = "returned"
    /\ built.source = "getBalanceSheet"
    /\ built' = NoBuilt
    /\ UNCHANGED << recorder, logCap, events, delivered, store, pc, call, reader >>

(***************************************************************************)
(* eventService.js sumEffectsByType with its date range, beside            *)
(* EventModal.handleSubmit recording dated events for the entity its user  *)
(* has open (p_event_date: today).                                         *)
(***************************************************************************)
\* a bound that was not given: if (startDate && ...)
NoDate == 0

SumQueries ==
    { [source |-> "sumEffectsByType", stage |-> "query", entityId |-> "e1",
       effectType |-> t, startDate |-> a, endDate |-> b, total |-> 0] :
         t \in {"CASH", "INCOME"}, a \in Days \cup {NoDate},
         b \in Days \cup {NoDate} }

\* the same join without .eq('economic_events.entity_id', entityId)
SumJoinedRowsOfAnyEntity(entityId, effectType) ==
    { x \in event_effects : x.effect_type = effectType }

\* the rows of the inner join that the query returns
SumJoinedRows(entityId, effectType) ==
    { x \in event_effects :
        /\ x.effect_type = effectType
        /\ \E e \in economic_events :
             e.id = x.event_id /\ e.entity_id = entityId }

\* filtered: rows whose event is dated within the bounds that were given
SumFiltered(rows, startDate, endDate) ==
    { x \in rows :
        LET date == (CHOOSE e \in economic_events : e.id = x.event_id).event_date
        IN  /\ ~(startDate # NoDate /\ date < startDate)
            /\ ~(endDate # NoDate /\ date > endDate) }

sumEffectsByTypeBetween(entityId, effectType, startDate, endDate) ==
    SumRows(SumFiltered(SumJoinedRows(entityId, effectType), startDate, endDate))

sumEffectsByType_call ==
    /\ built.source = "sumEffectsByType"
    /\ built.stage = "query"
    /\ \E ok \in BOOLEAN :
         built' = [built EXCEPT
                     !.stage = IF ok THEN "returned" ELSE "failed",
                     !.total = IF ok
                               THEN sumEffectsByTypeBetween(built.entityId,
                                      built.effectType, built.startDate,
                                      built.endDate)
                               ELSE 0]
    /\ UNCHANGED << recorder, logCap, events, delivered, store, pc, call, reader >>

SumArchetypes == {"CASH_SALE", "CASH_EXPENSE", "CREDIT_SALE"}

\* handleSubmit by the owner of the open entity, on day today
EventModal_handleSubmitOn(today) ==
    /\ nextEventId <= logCap
    /\ \E entityId \in {"e1", "e2"}, value \in SumArchetypes,
          numericAmount \in LedgerAmounts, ok \in BOOLEAN :
         LET effects == buildEffects(value, numericAmount)
         IN  IF /\ ok
                /\ RecordEconomicEventFnError(EntityOwner[entityId], entityId,
                                              effects) = ""
             THEN /\ economic_events' = economic_events \cup
                        { Dated(EventRow(nextEventId, EntityOwner[entityId],
                                         entityId, value, Desc("", "")),
                                "event_date", today) }
                  /\ event_effects' = event_effects \cup
                        { Dated(x, "created_at", today) :
                            x \in RpcPayloads(nextEventId, effects) }
                  /\ nextEventId' = nextEventId + 1
             ELSE UNCHANGED << economic_events, event_effects, nextEventId >>
    /\ UNCHANGED << recorder, logCap, events, delivered, entities, recognitions,
                    assets, liabilities, pc, call, reader, built >>

(***************************************************************************)
(* Specifications.                                                         *)
(***************************************************************************)
Next ==
    \/ \E p \in Callers :
         \/ recordEconomicEvent(p)
         \/ recordEconomicEvent_insertEvent(p)
         \/ recordEconomicEvent_insertEffects(p)
         \/ recordEconomicEvent_rpc(p)
         \/ addIncome(p)
         \/ addIncome_insertRecognition(p)
         \/ voidIncome(p)
         \/ addExpense(p)
         \/ addExpense_insertRecognition(p)
         \/ voidExpense(p)
         \/ addAsset(p)
         \/ addAsset_insertAsset(p)
         \/ disposeAsset(p)
         \/ disposeAsset_update(p)
         \/ addLiability(p)
         \/ addLiability_insertLiability(p)
         \/ recordLiabilityPayment(p)
         \/ recordLiabilityPayment_update(p)
         \/ Return(p)
    \/ deleteEntity

Spec == Init /\ [][Next]_vars

\* a reader running beside callers of recordEconomicEvent
NextReaders ==
    \/ \E p \in Callers :
         \/ recordEconomicEvent(p)
         \/ recordEconomicEvent_insertEvent(p)
         \/ recordEconomicEvent_insertEffects(p)
         \/ recordEconomicEvent_rpc(p)
         \/ Return(p)
    \/ getEventWithEffects_selectEvent
    \/ getEventWithEffects_selectEffects
    \/ getEventWithEffects_return

SpecReaders == Init /\ [][NextReaders]_vars

\* ledgers written through the EventModal components only
InitModal ==
    /\ recorder = "RPC"
    /\ logCap = MaxEvents
    /\ StoreInit
    /\ EmitterInit
    /\ built = NoBuilt

NextModal ==
    \/ EventModal_handleSubmit
    \/ EventModal_handleSubmitTemplate

SpecModal == InitModal /\ [][NextModal]_vars

\* the pure builders
InitCatalog ==
    /\ recorder = "RPC"
    /\ logCap = MaxEvents
    /\ StoreInit
    /\ EmitterInit
    /\ built \in BuilderInputs

NextCatalog == Build

SpecCatalog == InitCatalog /\ [][NextCatalog]_vars

\* assets and liabilities through their lives: acquired or incurred, then
\* disposed of or paid, more than once
InitRecords ==
    /\ recorder \in {"RPC", "DIRECT"}
    /\ logCap = MaxEvents + 1
    /\ StoreInit
    /\ EmitterInit
    /\ built = NoBuilt

NextRecords ==
    \E p \in Callers :
      \/ recordEconomicEvent_insertEvent(p)
      \/ recordEconomicEvent_insertEffects(p)
      \/ recordEconomicEvent_rpc(p)
      \/ addAsset(p)
      \/ addAsset_insertAsset(p)
      \/ disposeAsset(p)
      \/ disposeAsset_update(p)
      \/ addLiability(p)
      \/ addLiability_insertLiability(p)
      \/ recordLiabilityPayment(p)
      \/ recordLiabilityPayment_update(p)
      \/ Return(p)

SpecRecords == InitRecords /\ [][NextRecords]_vars

\* recordings made while pages subscribe and unsubscribe
InitEmitter ==
    /\ recorder \in {"RPC", "DIRECT"}
    /\ logCap = MaxEvents
    /\ StoreInit
    /\ EmitterInit
    /\ built = NoBuilt

NextEmitter ==
    \/ \E p \in Callers :
         \/ recordEconomicEvent(p)
         \/ recordEconomicEvent_insertEvent(p)
         \/ recordEconomicEvent_insertEffects(p)
         \/ recordEconomicEvent_rpc(p)
         \/ Return(p)
    \/ EventModal_handleSubmit
    \/ \E callback \in Listeners : on(callback) \/ off(callback)

SpecEmitter == InitEmitter /\ [][NextEmitter]_vars

\* the recorders of eventService.js and of eventOrchestrator.js, called directly
InitRecorders ==
    /\ recorder \in {"RPC", "DIRECT"}
    /\ logCap = MaxEvents
    /\ StoreInit
    /\ EmitterInit
    /\ built = NoBuilt

NextRecorders ==
    \E p \in Callers :
      \/ recordEconomicEvent(p)
      \/ recordEconomicEvent_insertEvent(p)
      \/ recordEconomicEvent_insertEffects(p)
      \/ recordEconomicEvent_rpc(p)
      \/ eventOrchestrator_recordEconomicEvent(p)
      \/ Return(p)

SpecRecorders == InitRecorders /\ [][NextRecorders]_vars

\* the cash-flow report over ledgers of dated rows
InitLedger ==
    /\ recorder = "DIRECT"
    /\ logCap = MaxEvents
    /\ entities = {"e1", "e2"}
    /\ \E ledger \in CashLedgers :
         /\ economic_events = LedgerEvents(ledger)
         /\ event_effects = LedgerEffects(ledger)
         /\ nextEventId = Len(ledger) + 1
    /\ recognitions = {}
    /\ assets = {}
    /\ liabilities = {}
    /\ pc = [p \in Procs |-> "idle"]
    /\ call = [p \in Procs |-> IdleCall]
    /\ reader = IdleReader
    /\ EmitterInit

InitCashFlow ==
    /\ InitLedger
    /\ built \in CashFlowQueries

NextCashFlow == getCashFlow

SpecCashFlow == InitCashFlow /\ [][NextCashFlow]_vars

\* the income statement over ledgers of dated rows
InitIncomeStatement ==
    /\ InitLedger
    /\ built \in IncomeStatementQueries

NextIncomeStatement == getIncomeStatement

SpecIncomeStatement == InitIncomeStatement /\ [][NextIncomeStatement]_vars

\* the balance sheet read beside the writers of assets and liabilities
InitBalanceSheet ==
    /\ recorder \in {"RPC", "DIRECT"}
    /\ logCap = MaxEvents
    /\ StoreInit
    /\ EmitterInit
    /\ built = NoBuilt

NextBalanceSheet ==
    \/ NextRecords
    \/ getBalanceSheet_selectAssets
    \/ getBalanceSheet_selectLiabilities
    \/ getBalanceSheet_return

SpecBalanceSheet == InitBalanceSheet /\ [][NextBalanceSheet]_vars

\* sums over a ledger of dated events of two entities
InitSum ==
    /\ recorder = "RPC"
    /\ logCap = MaxEvents
    /\ StoreInit
    /\ EmitterInit
    /\ built \in SumQueries

NextSum ==
    \/ sumEffectsByType_call
    \/ \E today \in Days : EventModal_handleSubmitOn(today)

SpecSum == InitSum /\ [][NextSum]_vars

\* two callers of recordEconomicEvent at once
InitConcurrent ==
    /\ recorder \in {"RPC", "DIRECT"}
    /\ logCap = MaxEvents
    /\ StoreInit
    /\ EmitterInit
    /\ built = NoBuilt

NextConcurrent ==
    \E p \in Procs :
      \/ recordEconomicEvent(p)
      \/ recordEconomicEvent_insertEvent(p)
      \/ recordEconomicEvent_insertEffects(p)
      \/ recordEconomicEvent_rpc(p)
      \/ Return(p)

SpecConcurrent == InitConcurrent /\ [][NextConcurrent]_vars

\* the helpers of the Effect Builder
InitBuilders ==
    /\ recorder = "RPC"
    /\ logCap = MaxEvents
    /\ StoreInit
    /\ EmitterInit
    /\ built \in HelperInputs

NextBuilders == BuildEffect

SpecBuilders == InitBuilders /\ [][NextBuilders]_vars

\* the interest engine
InitInterest ==
    /\ recorder = "DIRECT"
    /\ logCap = MaxEvents
    /\ StoreInit
    /\ EmitterInit
    /\ built \in InterestInputs

NextInterest == Accrue

SpecInterest == InitInterest /\ [][NextInterest]_vars

\* the depreciation engine
InitDepreciation ==
    /\ recorder = "DIRECT"
    /\ logCap = MaxEvents
    /\ StoreInit
    /\ EmitterInit
    /\ built \in {input \in ValuationInputs : WholeYears(input)}

NextDepreciation == Value

SpecDepreciation == InitDepreciation /\ [][NextDepreciation]_vars

(***************************************************************************)
(* Properties.                                                             *)
(***************************************************************************)
Returned(p) == pc[p] = "done"

NonPositive(effects) == \E k \in 1..Len(effects) : effects[k].amount <= 0

\* failures of the store or of the session, as opposed to a rejected request
TransientErrors ==
    {"Not authenticated", "insert into economic_events failed",
     "insert into event_effects failed", "record_economic_event failed"}

\* C1: a recordEconomicEvent call that returns failure leaves no row behind:
\* neither the economic_events row it wrote nor any effect row of it.
C1_FailureLeavesNoRows ==
    \A p \in Callers :
      (Returned(p) /\ call[p].op = "recordEconomicEvent"
         /\ call[p].result = "failure")
        => /\ call[p].eventId \notin EventIds
           /\ EffectsOf(call[p].eventId) = {}

\* C2: recordEconomicEvent called with fewer than two effects returns failure
\* and has written no economic_events row (hence no event_effects row).
C2_TooFewEffectsRejected ==
    \A p \in Callers :
      (Returned(p) /\ call[p].op = "recordEconomicEvent"
         /\ Len(call[p].effects) < MinEffects)
        => /\ call[p].result = "failure"
           /\ call[p].eventId = 0

\* C3: whenever no handler is in flight, every persisted economic event has
\* at least two effects.
C3_EveryEventHasTwoEffects ==
    (\A p \in Procs : pc[p] = "idle")
      => \A e \in economic_events : Cardinality(EffectsOf(e.id)) >= MinEffects

\* C4: every catalog entry and every factory, for every amount a > 0, builds
\* at least two effects, each with a non-negative amount and a sign in
\* {+1, -1}, whose signed sum is zero.
C4_BuiltEffectsBalanced ==
    built.stage = "built"
      => /\ Len(built.effects) >= MinEffects
         /\ \A k \in 1..Len(built.effects) :
              /\ built.effects[k].amount >= 0
              /\ built.effects[k].effect_sign \in {1, -1}
         /\ SignedSum(built.effects) = 0

C4_Witness ==
    /\ built.stage = "built"
    /\ built.name = "ASSET_SOLD_WITH_GAIN"
    /\ built.amount > 5
    /\ Len(built.effects) > MinEffects

C6_ReaderSeesWholeEvent ==
    (reader.pc = "done" /\ reader.result = "success")
      => /\ reader.effects = EffectsOf(reader.eventId)
         /\ \A p \in Callers :
              (pc[p] = "insert_effects" /\ call[p].eventId = reader.eventId)
                => Len(call[p].effects) = 0

\* C7: a call whose effects include a non-positive amount returns failure
\* and has written no economic_events row.
C7_NonPositiveAmountRejected ==
    \A p \in Callers :
      (Returned(p) /\ NonPositive(call[p].effects))
        => /\ call[p].result = "failure"
           /\ call[p].eventId = 0

\* C8: recordEconomicEvent for an entity the calling user does not own
\* returns failure and has written no row.
C8_ForeignEntityRejected ==
    \A p \in Callers :
      (Returned(p) /\ call[p].op = "recordEconomicEvent"
         /\ call[p].entityId \in {"e1", "e2"}
         /\ EntityOwner[call[p].entityId] # CurrentUser)
        => /\ call[p].result = "failure"
           /\ call[p].eventId = 0

\* C9: in every step that deletes no entity, every economic_events row and
\* every event_effects row of the state before is a row of the state after,
\* field for field.
C9_AppendOnly ==
    [][entities' = entities
         => /\ economic_events \subseteq economic_events'
            /\ event_effects \subseteq event_effects']_vars

C9_Witness ==
    /\ Cardinality(economic_events) = MaxEvents
    /\ \E e \in economic_events : e.event_type = "LIABILITY_SETTLED"
    /\ \E l \in liabilities : l.extinguished_event_id # 0
    /\ \A e \in economic_events : EffectsOf(e.id) # {}

\* C10: a voidIncome or voidExpense call on an existing event that is not
\* stopped by a failing store or session leaves the original event in place
\* and a new event in the log that carries the reason.
C10_VoidRecordsNewEvent ==
    \A p \in Callers :
      (Returned(p) /\ call[p].op \in {"voidIncome", "voidExpense"}
         /\ call[p].target \in EventIds \ {call[p].eventId}
         /\ call[p].error \notin TransientErrors)
        => /\ call[p].result = "success"
           /\ \E e \in economic_events :
                /\ e.id # call[p].target
                /\ e.id = call[p].eventId
                /\ e.description = call[p].description

\* C11: a successful addIncome with amountNet = a on an empty ledger leaves
\* one REVENUE_EARNED event with exactly two effects, and the entity's income
\* and cash totals both read a (on the INCOME / CASH axes or on the effect
\* types the service writes, with either sign convention).
C11_AddIncomeTotals ==
    \A p \in Callers :
      (Returned(p) /\ call[p].op = "addIncome" /\ call[p].result = "success"
         /\ EventIds = {call[p].eventId})
        => /\ \A e \in economic_events : e.event_type = "REVENUE_EARNED"
           /\ Cardinality(EffectsOf(call[p].eventId)) = 2
           /\ \E axis \in {"INCOME", "INCOME_RECOGNIZED"} :
                sumEffectsByType(call[p].entityId, axis)
                  \in {call[p].amount, -call[p].amount}
           /\ \E axis \in {"CASH", "CASH_INCREASE"} :
                sumEffectsByType(call[p].entityId, axis)
                  \in {call[p].amount, -call[p].amount}

RecognitionsOf(eventId) == {r \in recognitions : r.effect_id[1] = eventId}

\* C12: after addIncome or addExpense has returned, success or failure, an
\* event of the call that is in the store with all its effects has exactly
\* one recognition record attached to one of them: a failed recognition
\* insert leaves no recorded event without its recognition.
C12_RecognitionAtomicWithEvent ==
    \A p \in Callers :
      (Returned(p) /\ call[p].op \in {"addIncome", "addExpense"}
         /\ call[p].eventId \in EventIds
         /\ Cardinality(EffectsOf(call[p].eventId)) = Len(call[p].effects))
        => Cardinality(RecognitionsOf(call[p].eventId)) = 1

\* C13: after recordLiabilityPayment has returned, success or failure: if the
\* payment left remaining = 0 and its LIABILITY_SETTLED event is in the store
\* with its effects, the liability's extinguished_event_id is set; and if it
\* left remaining > 0 the call has not set the pointer.
C13_SettledWithPointer ==
    \A p \in Callers :
      (Returned(p) /\ call[p].op = "recordLiabilityPayment"
         /\ call[p].eventId \in EventIds
         /\ Cardinality(EffectsOf(call[p].eventId)) = Len(call[p].effects))
        => \A l \in liabilities :
             l.id = call[p].target
               => IF call[p].remaining = 0
                  THEN l.extinguished_event_id # 0
                  ELSE l.extinguished_event_id # call[p].eventId

\* C14: a disposed_event_id or extinguished_event_id that is set keeps its
\* value in every later step: no later disposeAsset or
\* recordLiabilityPayment on the same record changes it.
C14_PointerSetOnce ==
    [][/\ \A a \in assets : \A b \in assets' :
            (a.id = b.id /\ a.disposed_event_id # 0)
              => b.disposed_event_id = a.disposed_event_id
       /\ \A l \in liabilities : \A m \in liabilities' :
            (l.id = m.id /\ l.extinguished_event_id # 0)
              => m.extinguished_event_id = l.extinguished_event_id]_vars

C16_StraightLineWithinLife ==
    LET asset == built.asset
        elapsed == (built.t1.year - asset.acquisition_date.year) * 12
                     + (built.t1.month - asset.acquisition_date.month)
    IN  (/\ built.stage = "valued"
         /\ asset.depreciation_method = "STRAIGHT_LINE"
         /\ asset.useful_life_months > 0
         /\ elapsed <= asset.useful_life_months)
          => /\ built.accumulated * asset.useful_life_months
                  = asset.initial_value * (IF elapsed < 0 THEN 0 ELSE elapsed)
             /\ built.bookValue1 = asset.initial_value - built.accumulated
             /\ elapsed < 0 => built.bookValue1 = asset.initial_value

C16_Witness ==
    /\ built.stage = "valued"
    /\ built.asset = ValuedAsset(1200, "STRAIGHT_LINE", 12, Date(0, 0))
    /\ built.t1 = Date(0, 4)
    /\ built.accumulated = 400
    /\ built.bookValue1 = 800

\* C17: STRAIGHT_LINE accumulated depreciation never exceeds the initial
\* value, at any clock reading, so the book value is never negative.
C17_StraightLineCapped ==
    (built.stage = "valued" /\ built.asset.depreciation_method = "STRAIGHT_LINE")
      => /\ built.accumulated <= built.asset.initial_value
         /\ built.bookValue1 >= 0


\* a step that commits an event together with its effect rows, or the effect
\* rows of an event stored before: the write of a recording has committed
RecordingCommitted ==
    \E id \in 1..(MaxEvents + 1) :
      /\ {x \in event_effects : x.event_id = id} = {}
      /\ {x \in event_effects' : x.event_id = id} # {}

\* C18 (as stated): every recording whose write commits calls each callback
\* registered at that moment once, and callbacks are called only by a step
\* that stores the event or completes, without failing, the recording of a
\* stored event.
C18_EmittedOnEveryRecording ==
    [][ /\ RecordingCommitted =>
            Len(delivered') = Len(delivered) + Len(events)
        /\ delivered' # delivered =>
             \E e \in economic_events' :
               \/ e \notin economic_events
               \/ \E p \in Procs : /\ pc[p] = "insert_effects"
                                   /\ call[p].eventId = e.id
                                   /\ call'[p].result # "failure" ]_vars


\* C19 (as stated): a call of recordEconomicEvent, of either module, that has
\* come back to its caller came back with a structured result: success, or
\* failure with a message; none came back as a thrown exception.
C19_NeverThrows ==
    \A p \in Procs :
      (Returned(p) /\ call[p].op \in {"recordEconomicEvent",
                                      "eventOrchestrator.recordEconomicEvent"})
        => \/ call[p].result = "success"
           \/ call[p].result = "failure" /\ call[p].error # ""


\* a cash effect's signed movement: amount * effect_sign where the row has a
\* sign, the signed amount where it has none
CashMovement(x) == IF x.effect_sign = NoSign THEN x.amount ELSE x.amount * x.effect_sign

RECURSIVE SumMovements(_)
SumMovements(rows) ==
    IF rows = {} THEN 0
    ELSE LET row == CHOOSE r \in rows : TRUE
         IN  CashMovement(row) + SumMovements(rows \ {row})

\* the CASH-axis effects of the entity's events dated in the queried range
CashAxisEffects ==
    { x \in event_effects :
        /\ x.effect_type \in {"CASH", "CASH_INCREASE", "CASH_DECREASE"}
        /\ x.event_id \in CashFlowEventIds(built.entityId, built.startDate,
                                           built.endDate) }

\* C20 (as stated): the rows getCashFlow returned are, in ascending date
\* order, one per day on which the entity's events dated in the range have
\* CASH-axis effects, each with inflow the sum of that day's positive signed
\* movements, outflow the sum of the magnitudes of its negative ones, net
\* their difference, and runningBalance the sum of net up to that row.
C20_CashFlowPerDay ==
    built.stage = "returned" =>
      LET days == {x.created_at : x \in CashAxisEffects}
          OfDay(d) == {x \in CashAxisEffects : x.created_at = d}
      IN  /\ {built.data[i].date : i \in DOMAIN built.data} = days
          /\ Len(built.data) = Cardinality(days)
          /\ \A i \in DOMAIN built.data :
               LET row == built.data[i]
               IN  /\ \A j \in DOMAIN built.data : j < i => built.data[j].date < row.date
                   /\ row.inflow =
                        SumMovements({x \in OfDay(row.date) : CashMovement(x) > 0})
                   /\ row.outflow =
                        -SumMovements({x \in OfDay(row.date) : CashMovement(x) < 0})
                   /\ row.net = row.inflow - row.outflow
                   /\ row.runningBalance =
                        SumMovements({x \in CashAxisEffects : x.created_at <= row.date})


\* the effects on an axis, under either vocabulary, of the entity's events
\* dated in the queried range
AxisEffects(types) ==
    { x \in event_effects :
        /\ x.effect_type \in types
        /\ x.event_id \in CashFlowEventIds(built.entityId, built.startDate,
                                           built.endDate) }

\* C21 (as stated): the statement getIncomeStatement returned has totalIncome
\* and totalExpenses equal to the sums of the magnitudes of the INCOME-axis
\* and EXPENSE-axis effects of the entity's events dated in the range, with
\* netIncome = totalIncome - totalExpenses and taxableIncome = totalIncome -
\* deductibleExpenses.
C21_IncomeStatementTotals ==
    (built.stage = "returned" /\ built.source = "getIncomeStatement") =>
      /\ built.data.totalIncome =
           SumSafeAbs(AxisEffects({"INCOME", "INCOME_RECOGNIZED"}))
      /\ built.data.totalExpenses =
           SumSafeAbs(AxisEffects({"EXPENSE", "EXPENSE_RECOGNIZED"}))
      /\ built.data.netIncome = built.data.totalIncome - built.data.totalExpenses
      /\ built.data.taxableIncome =
           built.data.totalIncome - built.data.deductibleExpenses


\* C22 (as stated): each query of getBalanceSheet counts exactly the records
\* of the entity that are live when it runs (an asset if and only if its
\* disposed_event_id is null, a liability if and only if its
\* extinguished_event_id is null), and the result has equity = totalAssets -
\* totalLiabilities.
C22_CountsLiveRecords ==
    [][ /\ (built.stage = "none" /\ built'.stage = "assets") =>
             /\ built'.assetIds =
                  {a.id : a \in {x \in assets : x.entity_id = built'.entityId
                                               /\ x.disposed_event_id = 0}}
             /\ built'.totalAssets =
                  SumField({x \in assets : x.entity_id = built'.entityId
                                            /\ x.disposed_event_id = 0},
                           "initial_value")
        /\ (built.stage = "assets" /\ built'.stage = "returned") =>
             /\ built'.liabilityIds =
                  {l.id : l \in {x \in liabilities : x.entity_id = built.entityId
                                                    /\ x.extinguished_event_id = 0}}
             /\ built'.totalLiabilities =
                  SumField({x \in liabilities : x.entity_id = built.entityId
                                                 /\ x.extinguished_event_id = 0},
                           "principal_amount")
             /\ built'.equity = built'.totalAssets - built'.totalLiabilities ]_vars


\* the effects a sum over (entity, type, start, end) is about
InRangeEffects(entityId, effectType, startDate, endDate) ==
    { x \in event_effects :
        /\ x.effect_type = effectType
        /\ \E e \in economic_events :
             /\ e.id = x.event_id
             /\ e.entity_id = entityId
             /\ (startDate = NoDate \/ e.event_date >= startDate)
             /\ (endDate = NoDate \/ e.event_date <= endDate) }

\* C23: a call of sumEffectsByType that returns a total returns the sum of
\* amount * effect_sign over exactly the effects of the given type whose
\* event belongs to the entity and is dated within the bounds given, both
\* inclusive; and a step that records an event of another entity, or one with
\* no effect of that type, leaves the sum unchanged.
C23_SumOverEntityTypeRange ==
    [][ /\ (built.stage = "query" /\ built'.stage = "returned") =>
             built'.total =
               SumRows(InRangeEffects(built.entityId, built.effectType,
                                      built.startDate, built.endDate))
        /\ (\A e \in economic_events' \ economic_events :
              \/ e.entity_id # built.entityId
              \/ \A x \in event_effects' :
                   x.event_id = e.id => x.effect_type # built.effectType)
             => sumEffectsByTypeBetween(built.entityId, built.effectType,
                                        built.startDate, built.endDate)'
                = sumEffectsByTypeBetween(built.entityId, built.effectType,
                                          built.startDate, built.endDate) ]_vars

\* a sum over a bounded range returned a total other than zero while the
\* ledger also holds an effect of that type of another entity and one of the
\* same entity dated outside the range
C23_Witness ==
    /\ built.stage = "returned"
    /\ built.total # 0
    /\ built.startDate # NoDate
    /\ built.endDate # NoDate
    /\ built.total = sumEffectsByTypeBetween(built.entityId, built.effectType,
                                             built.startDate, built.endDate)
    /\ \E x \in event_effects, e \in economic_events :
         /\ e.id = x.event_id
         /\ x.effect_type = built.effectType
         /\ e.entity_id # built.entityId


\* the effect rows the recorder in use makes of the effects passed to a call
OwnPayloads(c) ==
    IF recorder = "RPC" THEN RpcPayloads(c.eventId, c.effects)
    ELSE DirectPayloads(c.eventId, c.effects)

\* C24: when two concurrent calls of recordEconomicEvent have both returned
\* success, their events are two distinct rows of the log and each event
\* carries exactly the effect rows made of the effects passed to its own
\* call; and while a call stands between its two inserts, its event carries
\* no effect row of another call.
C24_ConcurrentCallsIndependent ==
    /\ \A p \in Procs, q \in Procs :
         (/\ p # q
          /\ Returned(p) /\ call[p].result = "success"
          /\ Returned(q) /\ call[q].result = "success")
           => /\ call[p].eventId # call[q].eventId
              /\ {call[p].eventId, call[q].eventId} \subseteq EventIds
              /\ EffectsOf(call[p].eventId) = OwnPayloads(call[p])
              /\ EffectsOf(call[q].eventId) = OwnPayloads(call[q])
    /\ \A p \in Procs :
         pc[p] = "insert_effects" => EffectsOf(call[p].eventId) = {}

\* one call stands between its two inserts, its event stored without effects,
\* while the other call, started later, has returned success with its event
\* and its own effects stored
C24_Witness ==
    /\ recorder = "DIRECT"
    /\ pc["w1"] = "insert_effects"
    /\ call["w1"].eventId = 1
    /\ Len(call["w1"].effects) >= MinEffects
    /\ Returned("w2") /\ call["w2"].result = "success"
    /\ call["w2"].eventId = 2
    /\ Len(call["w2"].effects) >= MinEffects
    /\ call["w1"].effects # call["w2"].effects
    /\ EffectsOf(2) # {}


\* C25 (as stated): a helper called with a negative amount, or an
\* increase-type helper called with a zero amount, returns no effect record.
C25_HelpersRejectBadAmounts ==
    (/\ built.stage = "built"
     /\ built.source = "builder"
     /\ \/ built.amount < 0
        \/ /\ built.amount = 0
           /\ built.name \in {"cashIncrease", "assetIncrease", "liabilityIncrease"})
      => built.effects = << >>


\* C26 (as stated): the interest accrued on a liability added with
\* interestMethod 'SIMPLE' is principal * rate * years, and on one added with
\* 'COMPOUND' or with no method principal * (1 + rate)^years - principal
\* (rate in percent, amounts on which both are whole).
C26_InterestByMethod ==
    (built.stage = "accrued" /\ built.source = "interest") =>
      IF built.interestMethod = "SIMPLE"
      THEN built.accrued * 100 =
             built.principalAmount * built.interestRate * built.years
      ELSE (built.accrued + built.principalAmount) * Pow(100, built.years) =
             built.principalAmount * Pow(100 + built.interestRate, built.years)


\* the signed sum of the effects as a service passes them to the recorder
RECURSIVE PassedSignedSum(_)
PassedSignedSum(effects) ==
    IF effects = << >> THEN 0
    ELSE Head(effects).amount * Head(effects).effectSign
           + PassedSignedSum(Tail(effects))

\* C27 (as stated): the effects that addIncome, addExpense, addLiability,
\* recordLiabilityPayment and disposeAsset have passed to the recorder all
\* carry a sign in {+1, -1} and a non-negative amount, and their signed sum
\* is zero.
C27_ServiceEventsBalanced ==
    \A p \in Procs :
      (/\ call[p].op \in {"addIncome", "addExpense", "addLiability",
                          "recordLiabilityPayment", "disposeAsset"}
       /\ pc[p] \in {"rpc", "insert_event", "insert_effects", "post"})
        => /\ \A k \in 1..Len(call[p].effects) :
                /\ call[p].effects[k].effectSign \in {1, -1}
                /\ call[p].effects[k].amount >= 0
           /\ PassedSignedSum(call[p].effects) = 0


\* the movements a catalog entry or a factory stands for, in the order of
\* its effects: axis and direction
Movement(axis, direction) == [axis |-> axis, direction |-> direction]

Movements(name) ==
    CASE name \in {"CASH_SALE", "revenueEarned"} ->
           << Movement("CASH", "increase"), Movement("INCOME", "increase") >>
      [] name = "CREDIT_SALE" ->
           << Movement("ASSET", "increase"), Movement("INCOME", "increase") >>
      [] name = "REVENUE_REFUND" ->
           << Movement("INCOME", "decrease"), Movement("CASH", "decrease") >>
      [] name \in {"CASH_EXPENSE", "expenseIncurred"} ->
           << Movement("EXPENSE", "increase"), Movement("CASH", "decrease") >>
      [] name = "EXPENSE_ON_CREDIT" ->
           << Movement("EXPENSE", "increase"), Movement("LIABILITY", "increase") >>
      [] name \in {"ASSET_PURCHASED_CASH", "assetAcquiredWithCash"} ->
           << Movement("ASSET", "increase"), Movement("CASH", "decrease") >>
      [] name = "assetAcquiredWithLiability" ->
           << Movement("ASSET", "increase"), Movement("LIABILITY", "increase") >>
      [] name = "ASSET_SOLD_WITH_GAIN" ->
           << Movement("CASH", "increase"), Movement("ASSET", "decrease"),
              Movement("INCOME", "increase") >>
      [] name = "assetDisposed" ->
           << Movement("CASH", "increase"), Movement("ASSET", "decrease") >>
      [] name = "DEPRECIATION" ->
           << Movement("EXPENSE", "increase"), Movement("ASSET", "decrease") >>
      [] name \in {"LOAN_RECEIVED", "liabilityIncurred"} ->
           << Movement("CASH", "increase"), Movement("LIABILITY", "increase") >>
      [] name \in {"LOAN_REPAID", "liabilitySettled"} ->
           << Movement("LIABILITY", "decrease"), Movement("CASH", "decrease") >>
      [] name = "OWNER_INVESTMENT" ->
           << Movement("CASH", "increase"), Movement("EQUITY", "increase") >>
      [] name = "OWNER_WITHDRAWAL" ->
           << Movement("EQUITY", "decrease"), Movement("CASH", "decrease") >>

\* the sign the Effect Builder gives a movement; a reversal of recognized
\* income or expense, for which it has no helper, takes the opposite sign
HelperSign(movement) ==
    CASE movement = Movement("CASH", "increase") -> cashIncrease(1).effect_sign
      [] movement = Movement("CASH", "decrease") -> cashDecrease(1).effect_sign
      [] movement = Movement("ASSET", "increase") -> assetIncrease(1).effect_sign
      [] movement = Movement("ASSET", "decrease") -> assetDecrease(1).effect_sign
      [] movement = Movement("LIABILITY", "increase") ->
           liabilityIncrease(1).effect_sign
      [] movement = Movement("LIABILITY", "decrease") ->
           liabilityDecrease(1).effect_sign
      [] movement = Movement("INCOME", "increase") -> incomeRecognized(1).effect_sign
      [] movement = Movement("INCOME", "decrease") -> -incomeRecognized(1).effect_sign
      [] movement = Movement("EXPENSE", "increase") ->
           expenseRecognized(1).effect_sign
      [] movement = Movement("EXPENSE", "decrease") ->
           -expenseRecognized(1).effect_sign

MaxEmits == 2       \* emit calls made from outside a listener in a run
MaxReentry == 1     \* emit calls made from inside a listener in a run

Listener(name) == [name |-> name, wraps |-> ""]

\* const onceWrapper = (data) => { callback(data); this.off(eventName, onceWrapper) }
onceWrapper(callback) == [name |-> "onceWrapper", wraps |-> callback.name]

OnceCallbacks == {Listener("cb")}
OnCallbacks == {Listener("reload")}

\* the callback of the caller that runs when a registered function is called
Invoked(fn) == IF fn.name = "onceWrapper" THEN fn.wraps ELSE fn.name

Frame(array, i, phase) == [array |-> array, i |-> i, phase |-> phase]

Delivery(stack, emits, reentries) ==
    [source |-> "eventEmitter", name |-> "none", amount |-> 0,
     effects |-> << >>, stage |-> "delivery", stack |-> stack,
     emits |-> emits, reentries |-> reentries]

Invocations(name) ==
    Cardinality({i \in 1..Len(delivered) : delivered[i].callback = name})

\* this.events[eventName].filter(cb => cb !== callback)
filter(array, callback) == SelectSeq(array, LAMBDA cb : cb # callback)

\* the registered function returns: a once wrapper unsubscribes itself
\* after its callback has returned
AfterCallback(fn) == IF fn.name = "onceWrapper" THEN filter(events, fn) ELSE events

\* once(eventName, callback), called outside a delivery; every call makes
\* a new wrapper, and the model registers a callback once in a run
once(callback) ==
    /\ built.stack = << >>
    /\ Invocations(callback.name) = 0
    /\ on(onceWrapper(callback))

\* emit(eventName, data) called from outside a listener: forEach starts
\* over the array registered at this moment
emit_forEach ==
    /\ built.stack = << >>
    /\ built.emits < MaxEmits
    /\ built' = [built EXCEPT !.stack = << Frame(events, 1, "next") >>,
                              !.emits = @ + 1]
    /\ UNCHANGED << recorder, logCap, events, delivered, store, pc, call, reader >>

\* forEach calls the next function of its array; the callback either
\* returns or calls emit, which starts a forEach over the array then
\* registered while this call is still open
emit_callback ==
    /\ built.stack # << >>
    /\ LET top == Len(built.stack)
           f == built.stack[top]
       IN  /\ f.phase = "next"
           /\ f.i <= Len(f.array)
           /\ delivered' = Append(delivered,
                  [callback |-> Invoked(f.array[f.i]), data |-> Undefined])
           /\ \E reemits \in BOOLEAN :
                IF reemits
                THEN /\ built.reentries < MaxReentry
                     /\ built' = [built EXCEPT
                            !.stack = Append([@ EXCEPT ![top].phase = "in_callback"],
                                             Frame(events, 1, "next")),
                            !.reentries = @ + 1]
                     /\ events' = events
                ELSE /\ events' = AfterCallback(f.array[f.i])
                     /\ built' = [built EXCEPT !.stack[top].i = @ + 1]
    /\ UNCHANGED << recorder, logCap, store, pc, call, reader >>

\* forEach is through its array: emit returns, and the callback that
\* called it, if any, returns in turn
emit_return ==
    /\ built.stack # << >>
    /\ LET top == Len(built.stack)
           f == built.stack[top]
           below == SubSeq(built.stack, 1, top - 1)
       IN  /\ f.phase = "next"
           /\ f.i > Len(f.array)
           /\ IF below = << >>
              THEN /\ built' = [built EXCEPT !.stack = << >>]
                   /\ events' = events
              ELSE LET g == below[top - 1]
                   IN  /\ events' = AfterCallback(g.array[g.i])
                       /\ built' = [built EXCEPT !.stack =
                              [below EXCEPT ![top - 1] = Frame(g.array, g.i + 1, "next")]]
    /\ UNCHANGED << recorder, logCap, delivered, store, pc, call, reader >>

\* a page subscribes, and later calls the function on returned to it:
\* return () => this.off(eventName, callback); both outside a delivery
subscribe(callback) == built.stack = << >> /\ on(callback)

unsubscribe(callback) == built.stack = << >> /\ off(callback)

InitOnce ==
    /\ recorder = "RPC"
    /\ logCap = MaxEvents
    /\ StoreInit
    /\ EmitterInit
    /\ built = Delivery(<< >>, 0, 0)

NextOnce ==
    \/ \E callback \in OnceCallbacks : once(callback)
    \/ \E callback \in OnCallbacks : subscribe(callback) \/ unsubscribe(callback)
    \/ emit_forEach
    \/ emit_callback
    \/ emit_return

SpecOnce == InitOnce /\ [][NextOnce]_vars

\* C29: a callback registered with once is invoked at most once, whatever
\* emit calls follow, those made from inside a listener included.
C29_OnceAtMostOnce ==
    \A callback \in OnceCallbacks : Invocations(callback.name) <= 1


(***************************************************************************)
(* Recording while a listener that throws is subscribed.                   *)
(***************************************************************************)
NotifyListeners == ThrowingListeners \cup {"HomeTab"}

\* one recording at a time is followed: the log has room for MaxEvents - 1
\* events
InitNotify ==
    /\ recorder \in {"RPC", "DIRECT"}
    /\ logCap = MaxEvents - 1
    /\ StoreInit
    /\ EmitterInit
    /\ built = NoBuilt

NextNotify ==
    \/ \E p \in Callers :
         \/ recordEconomicEvent(p)
         \/ recordEconomicEvent_insertEvent(p)
         \/ recordEconomicEvent_insertEffects(p)
         \/ recordEconomicEvent_rpc(p)
         \/ Return(p)
    \/ \E callback \in NotifyListeners : on(callback) \/ off(callback)

SpecNotify == InitNotify /\ [][NextNotify]_vars

\* the step of a recordEconomicEvent call whose write has committed and
\* which goes on to emit
EmittingStep(p) ==
    /\ call[p].op = "recordEconomicEvent"
    /\ \/ pc[p] = "rpc" /\ nextEventId' # nextEventId
       \/ /\ pc[p] = "insert_effects"
          /\ pc'[p] # pc[p]
          /\ \/ event_effects' # event_effects
             \/ Len(call[p].effects) = 0

\* the callbacks called by this step, in the order of their calls
CalledNow ==
    [i \in 1..(Len(delivered') - Len(delivered)) |->
       delivered'[Len(delivered) + i].callback]

\* C30: when a recording emits while a listener that throws is registered,
\* every registered listener is still called, in registration order, and
\* the recordEconomicEvent call returns success with its event committed.
C30_ThrowingListenerIsolated ==
    [][ \A p \in Callers :
          (EmittingStep(p) /\ \E i \in 1..Len(events) : events[i] \in ThrowingListeners)
            => /\ CalledNow = events
               /\ pc'[p] = "done"
               /\ call'[p].result = "success"
               /\ \E e \in economic_events' : e.id = call'[p].eventId ]_vars

\* a recording returned success after the throwing listener, registered
\* first, and the page's listener after it were both called
C30_Witness ==
    \E p \in Callers :
      /\ Returned(p)
      /\ call[p].op = "recordEconomicEvent"
      /\ call[p].result = "success"
      /\ \E e \in economic_events : e.id = call[p].eventId
      /\ Len(events) = 2
      /\ events[1] \in ThrowingListeners
      /\ events[2] = "HomeTab"
      /\ Len(delivered) = 2
      /\ delivered[1].callback = events[1]
      /\ delivered[2].callback = "HomeTab"

====
